---- MODULE Spec2Model ----
(***************************************************************************)
(* Model of the SpineAPI OpenAPI parser (spineapi/parsers/openapi.py):     *)
(* the entity classes ParsedEndpoint, ParsedSchema, ParsedSpec with their  *)
(* derived properties, and OpenAPIParser.parse / validate as a state       *)
(* machine over a small file system.                                       *)
(*                                                                         *)
(* Text that the code inspects character by character (paths, methods,     *)
(* operation ids, schema names, file names) is a sequence of one-character *)
(* strings.  A Python dict is a sequence of <<key, value>> pairs with      *)
(* distinct keys, in insertion (document) order.  An Optional value is     *)
(* None (the empty sequence) or Some(x) (a one-element sequence).          *)
(***************************************************************************)
EXTENDS Integers, Sequences, FiniteSets, TLC

(***************************************************************************)
(* Bounds of the model.                                                    *)
(***************************************************************************)
MaxCalls == 3

MaxBuildCalls == 1

MaxItemKeys == 2

MaxNameLen == 3

MaxPathLen == 4

MaxSchemas == 2

MaxQueries == 2

MaxAliasCalls == 2

MaxResponses == 2

MaxSegments == 3

MaxParams == 3

(***************************************************************************)
(* Python built-ins used by the code.                                      *)
(***************************************************************************)
None == <<>>

Some(x) == <<x>>

LowerChars == <<"a","b","c","d","e","f","g","h","i","j","k","l","m",
                "n","o","p","q","r","s","t","u","v","w","x","y","z">>

UpperChars == <<"A","B","C","D","E","F","G","H","I","J","K","L","M",
                "N","O","P","Q","R","S","T","U","V","W","X","Y","Z">>

\* str.lower() / str.upper() on one character
LowerChar(c) ==
  IF \E i \in 1..Len(UpperChars) : UpperChars[i] = c
  THEN LowerChars[CHOOSE i \in 1..Len(UpperChars) : UpperChars[i] = c]
  ELSE c

UpperChar(c) ==
  IF \E i \in 1..Len(LowerChars) : LowerChars[i] = c
  THEN UpperChars[CHOOSE i \in 1..Len(LowerChars) : LowerChars[i] = c]
  ELSE c

Lower(s) == [i \in 1..Len(s) |-> LowerChar(s[i])]

Upper(s) == [i \in 1..Len(s) |-> UpperChar(s[i])]

\* str.replace(a, b) for one-character a and b
Replace(s, a, b) == [i \in 1..Len(s) |-> IF s[i] = a THEN b ELSE s[i]]

\* str.startswith(c) / str.endswith(c) for a one-character c
StartsWith(s, c) == Len(s) > 0 /\ s[1] = c

EndsWith(s, c) == Len(s) > 0 /\ s[Len(s)] = c

\* str.split(sep) for a one-character sep: always Count(sep)+1 pieces
RECURSIVE SplitFrom(_, _, _, _, _)
SplitFrom(s, sep, i, cur, acc) ==
  IF i > Len(s) THEN Append(acc, cur)
  ELSE IF s[i] = sep THEN SplitFrom(s, sep, i + 1, <<>>, Append(acc, cur))
  ELSE SplitFrom(s, sep, i + 1, Append(cur, s[i]), acc)

Split(s, sep) == SplitFrom(s, sep, 1, <<>>, <<>>)

\* sep.join(parts)
RECURSIVE Join(_, _)
Join(parts, sep) ==
  IF Len(parts) = 0 THEN <<>>
  ELSE IF Len(parts) = 1 THEN parts[1]
  ELSE parts[1] \o sep \o Join(Tail(parts), sep)

\* key in d
Has(d, k) == \E i \in 1..Len(d) : d[i][1] = k

\* d[k]
Item(d, k) == d[CHOOSE i \in 1..Len(d) : d[i][1] = k][2]

\* d.get(k, default)
Get(d, k, default) == IF Has(d, k) THEN Item(d, k) ELSE default

\* d.get(k): None when the key is absent
GetOpt(d, k) == IF Has(d, k) THEN Some(Item(d, k)) ELSE None

\* x or default, for a list or dict x
OrElse(x, default) == IF Len(x) = 0 THEN default ELSE x

(***************************************************************************)
(* ParsedEndpoint                                                          *)
(***************************************************************************)
\* an endpoint keeping the method as the parser passes it
ParsedEndpoint_KeepsCase(path, method, operation_id, summary, description, parameters, request_body, responses, tags, security) ==
  [ path         |-> path,
    method       |-> method,
    operation_id |-> operation_id,
    summary      |-> summary,
    description  |-> description,
    parameters   |-> OrElse(parameters, <<>>),
    request_body |-> request_body,
    responses    |-> OrElse(responses, <<>>),
    tags         |-> OrElse(tags, <<>>),
    security     |-> OrElse(security, <<>>) ]

ParsedEndpoint(path, method, operation_id, summary, description, parameters, request_body, responses, tags, security) ==
  [ path         |-> path,
    method       |-> Upper(method),
    operation_id |-> operation_id,
    summary      |-> summary,
    description  |-> description,
    parameters   |-> OrElse(parameters, <<>>),
    request_body |-> request_body,
    responses    |-> OrElse(responses, <<>>),
    tags         |-> OrElse(tags, <<>>),
    security     |-> OrElse(security, <<>>) ]

\* IsPathPart without the test for a leading brace
\* the segment test without "if p": empty segments are kept
IsPathPart_KeepsEmpty(p) == ~StartsWith(p, "{")

IsPathPart_KeepsBraces(p) == Len(p) > 0

IsPathPart(p) == Len(p) > 0 /\ ~StartsWith(p, "{")

\* function_name without the replacement of hyphens
function_name_KeepsHyphens(e) ==
  IF Len(e.operation_id) > 0
  THEN Lower(e.operation_id)
  ELSE Lower(e.method) \o <<"_">>
         \o Join(SelectSeq(Split(e.path, "/"), IsPathPart), <<"_">>)

function_name(e) ==
  IF Len(e.operation_id) > 0
  THEN Replace(Lower(e.operation_id), "-", "_")
  ELSE Lower(e.method) \o <<"_">>
         \o Join(SelectSeq(Split(e.path, "/"), IsPathPart), <<"_">>)

\* the filter taking a parameter without location for a query parameter
ParamsIn_DefaultsToQuery(e, location) ==
  SelectSeq(e.parameters, LAMBDA p : Get(p, "in", "query") = location)

\* the parameters of the endpoint declared at the given location
ParamsIn(e, location) ==
  SelectSeq(e.parameters, LAMBDA p : GetOpt(p, "in") = Some(location))

path_params(e) == ParamsIn(e, "path")

query_params(e) == ParamsIn(e, "query")

header_params(e) == ParamsIn(e, "header")

has_request_body(e) == e.request_body # None

\* get_success_response_schema going on to the first 2xx response that has
\* an application/json schema
get_success_response_schema_FirstWithSchema(e) ==
  LET WithSchema(response) ==
        GetOpt(Get(Get(response, "content", <<>>), "application/json", <<>>),
               "schema")
      hits == {i \in 1..Len(e.responses) :
                 /\ StartsWith(e.responses[i][1], "2")
                 /\ WithSchema(e.responses[i][2]) # None}
  IN  IF hits = {} THEN None
      ELSE WithSchema(e.responses[CHOOSE i \in hits : \A j \in hits : i <= j][2])

\* status codes are the characters of str(status_code)
get_success_response_schema(e) ==
  LET hits == {i \in 1..Len(e.responses) : StartsWith(e.responses[i][1], "2")}
  IN  IF hits = {} THEN None
      ELSE LET response     == e.responses[CHOOSE i \in hits :
                                             \A j \in hits : i <= j][2]
               content      == Get(response, "content", <<>>)
               json_content == Get(content, "application/json", <<>>)
           IN  GetOpt(json_content, "schema")

(***************************************************************************)
(* ParsedSchema                                                            *)
(***************************************************************************)
ParsedSchema(name, schema, description) ==
  [ name            |-> name,
    schema          |-> schema,
    description     |-> description,
    properties      |-> Get(schema, "properties", <<>>),
    required_fields |-> Get(schema, "required", <<>>),
    schema_type     |-> Get(schema, "type", "object") ]

\* str.capitalize: the first character upper-cased, the rest lower-cased
Capitalize(w) ==
  IF w = <<>> THEN <<>> ELSE <<UpperChar(w[1])>> \o Lower(Tail(w))

class_name(s) ==
  LET words == Split(Replace(Replace(s.name, "-", "_"), " ", "_"), "_")
  IN  Join([i \in 1..Len(words) |-> Capitalize(words[i])], <<>>)

\* table_name testing the suffix before the name is lowercased
table_name_TestsRawName(s) ==
  LET name == Replace(Replace(Lower(s.name), "-", "_"), " ", "_")
  IN  IF ~EndsWith(s.name, "s") THEN name \o <<"s">> ELSE name

table_name(s) ==
  LET name == Replace(Replace(Lower(s.name), "-", "_"), " ", "_")
  IN  IF ~EndsWith(name, "s") THEN name \o <<"s">> ELSE name

\* get_property_type with the item type of an array required to be present
get_property_type_NoItemDefault(s, prop_name) ==
  LET prop      == Get(s.properties, prop_name, <<>>)
      prop_type == GetOpt(prop, "type")
      prop_format == GetOpt(prop, "format")
  IN  IF prop_type = Some("string") THEN
        IF prop_format = Some("date-time") THEN <<"datetime">>
        ELSE IF prop_format = Some("date") THEN <<"date">>
        ELSE <<"str">>
      ELSE IF prop_type = Some("integer") THEN <<"int">>
      ELSE IF prop_type = Some("number") THEN <<"float">>
      ELSE IF prop_type = Some("boolean") THEN <<"bool">>
      ELSE IF prop_type = Some("array") /\ Has(Get(prop, "items", <<>>), "type") THEN
        <<"List[", Item(Item(prop, "items"), "type"), "]">>
      ELSE <<"Any">>

\* The result is the sequence of the pieces the code concatenates.
get_property_type(s, prop_name) ==
  LET prop        == Get(s.properties, prop_name, <<>>)
      prop_type   == GetOpt(prop, "type")
      prop_format == GetOpt(prop, "format")
  IN  IF prop_type = Some("string") THEN
        IF prop_format = Some("date-time") THEN <<"datetime">>
        ELSE IF prop_format = Some("date") THEN <<"date">>
        ELSE IF prop_format = Some("email") THEN <<"str">>
        ELSE <<"str">>
      ELSE IF prop_type = Some("integer") THEN <<"int">>
      ELSE IF prop_type = Some("number") THEN <<"float">>
      ELSE IF prop_type = Some("boolean") THEN <<"bool">>
      ELSE IF prop_type = Some("array") THEN
        LET items     == Get(prop, "items", <<>>)
            item_type == Get(items, "type", "Any")
        IN  <<"List[", item_type, "]">>
      ELSE <<"Any">>

is_required(s, prop_name) ==
  \E k \in 1..Len(s.required_fields) : s.required_fields[k] = prop_name

(***************************************************************************)
(* ParsedSpec                                                              *)
(***************************************************************************)
ParsedSpec(info, endpoints, schemas, servers, security_schemes, tags) ==
  [ info             |-> info,
    endpoints        |-> endpoints,
    schemas          |-> schemas,
    servers          |-> servers,
    security_schemes |-> security_schemes,
    tags             |-> tags ]

DefaultTitle == <<"G","e","n","e","r","a","t","e","d"," ","A","P","I">>

\* title falling back to the empty string
title_NoDefault(spec) == Get(spec.info, "title", <<>>)

title(spec) == Get(spec.info, "title", DefaultTitle)

version(spec) == Get(spec.info, "version", "1.0.0")

description(spec) == Get(spec.info, "description", "")

\* project_name replacing spaces only
project_name_KeepsHyphens(spec) == Replace(Lower(title(spec)), " ", "_")

project_name(spec) == Replace(Replace(Lower(title(spec)), " ", "_"), "-", "_")

\* get_endpoints_by_tag looking at the first tag of an endpoint only
get_endpoints_by_tag_FirstTagOnly(spec, tag) ==
  SelectSeq(spec.endpoints, LAMBDA e : e.tags # <<>> /\ e.tags[1] = tag)

get_endpoints_by_tag(spec, tag) ==
  SelectSeq(spec.endpoints,
            LAMBDA e : \E k \in 1..Len(e.tags) : e.tags[k] = tag)

\* get_schema_by_name looking for a raw name first, then for a class name
get_schema_by_name_RawNameFirst(spec, name) ==
  LET raw   == {i \in 1..Len(spec.schemas) : spec.schemas[i].name = name}
      class == {i \in 1..Len(spec.schemas) :
                  class_name(spec.schemas[i]) = name}
      hits  == IF raw # {} THEN raw ELSE class
  IN  IF hits = {} THEN None
      ELSE Some(spec.schemas[CHOOSE i \in hits : \A j \in hits : i <= j])

\* the schema of the first iteration of the loop whose test holds, or None
get_schema_by_name(spec, name) ==
  LET hits == {i \in 1..Len(spec.schemas) :
                 \/ spec.schemas[i].name = name
                 \/ class_name(spec.schemas[i]) = name}
  IN  IF hits = {} THEN None
      ELSE Some(spec.schemas[CHOOSE i \in hits : \A j \in hits : i <= j])

(***************************************************************************)
(* OpenAPIParser: the sub-walks over the held document.  spec_data is an   *)
(* Optional dict; path-item keys and paths are character sequences.        *)
(***************************************************************************)
K_get == <<"g","e","t">>

K_post == <<"p","o","s","t">>

K_put == <<"p","u","t">>

K_patch == <<"p","a","t","c","h">>

K_delete == <<"d","e","l","e","t","e">>

K_head == <<"h","e","a","d">>

K_options == <<"o","p","t","i","o","n","s">>

K_parameters == <<"p","a","r","a","m","e","t","e","r","s">>

\* the list of methods with the last verb forgotten
Methods_WithoutOptions == <<K_get, K_post, K_put, K_patch, K_delete, K_head>>

\* the literal list of line 266
Methods == <<K_get, K_post, K_put, K_patch, K_delete, K_head, K_options>>

\* _parse_info handing out a copy of the mapping it found
InfoIsDocumentObject_Copies(sd) == FALSE

\* whether the mapping _parse_info returns is the object the document holds
\* under "info": dict.get returns the stored object itself when the key is
\* present, and the new {} of its second argument when it is absent
InfoIsDocumentObject(sd) == sd # None /\ Has(sd[1], "info")

_parse_info(sd) ==
  IF sd = None THEN <<>> ELSE Get(sd[1], "info", <<>>)

\* the merge with the operation's parameters put first
MergeParameters_OperationFirst(global_params, operation) ==
  Get(operation, "parameters", <<>>) \o global_params

\* parameters = global_params.copy(); parameters.extend(operation.get(...))
MergeParameters(global_params, operation) ==
  global_params \o Get(operation, "parameters", <<>>)

MakeEndpoint(path, method, operation, global_params) ==
  ParsedEndpoint(path, method,
                 Get(operation, "operationId", <<>>),
                 GetOpt(operation, "summary"),
                 GetOpt(operation, "description"),
                 MergeParameters(global_params, operation),
                 GetOpt(operation, "requestBody"),
                 Get(operation, "responses", <<>>),
                 Get(operation, "tags", <<>>),
                 Get(operation, "security", <<>>))

\* the merge extending the path-level list itself, without the copy
PathLevelAfterMerge_ExtendsInPlace(global_params, operation) ==
  global_params \o Get(operation, "parameters", <<>>)

\* the content of the path-level list object after one merge: extend acts on
\* the copy made by global_params.copy(), so the list keeps its content
PathLevelAfterMerge(global_params, operation) == global_params

\* the content of global_params when the inner loop reaches methods[i]
RECURSIVE GlobalParamsAt(_, _, _)
GlobalParamsAt(path_item, methods, i) ==
  IF i <= 1 THEN Get(path_item, K_parameters, <<>>)
  ELSE IF Has(path_item, methods[i - 1])
       THEN PathLevelAfterMerge(GlobalParamsAt(path_item, methods, i - 1),
                                Item(path_item, methods[i - 1]))
       ELSE GlobalParamsAt(path_item, methods, i - 1)

\* the inner loop going over the keys of the path item in document order
EndpointsOfItem_DocumentKeyOrder(path, path_item, methods, i) ==
  LET keys == SelectSeq(path_item,
                        LAMBDA kv : \E k \in i..Len(methods) : methods[k] = kv[1])
  IN  [n \in 1..Len(keys) |->
         MakeEndpoint(path, keys[n][1], keys[n][2],
                      Get(path_item, K_parameters, <<>>))]

\* the inner loop of _parse_endpoints over methods[i..]
RECURSIVE EndpointsOfItem(_, _, _, _)
EndpointsOfItem(path, path_item, methods, i) ==
  IF i > Len(methods) THEN <<>>
  ELSE IF ~Has(path_item, methods[i])
       THEN EndpointsOfItem(path, path_item, methods, i + 1)
       ELSE <<MakeEndpoint(path, methods[i], Item(path_item, methods[i]),
                           GlobalParamsAt(path_item, methods, i))>>
            \o EndpointsOfItem(path, path_item, methods, i + 1)

\* the outer loop of _parse_endpoints over paths.items()
RECURSIVE EndpointsOfPaths(_, _)
EndpointsOfPaths(paths, i) ==
  IF i > Len(paths) THEN <<>>
  ELSE EndpointsOfItem(paths[i][1], paths[i][2], Methods, 1)
       \o EndpointsOfPaths(paths, i + 1)

_parse_endpoints(sd) ==
  IF sd = None THEN <<>>
  ELSE EndpointsOfPaths(Get(sd[1], "paths", <<>>), 1)

\* the held document once _parse_endpoints has returned: a path-level
\* parameters list of the document is the object the inner loop merged from
DocumentAfterEndpoints(sd) ==
  IF sd = None \/ ~Has(sd[1], "paths") THEN sd
  ELSE LET paths == Item(sd[1], "paths")
           After(path_item) ==
             [k \in 1..Len(path_item) |->
                IF path_item[k][1] = K_parameters
                THEN <<K_parameters,
                       GlobalParamsAt(path_item, Methods, Len(Methods) + 1)>>
                ELSE path_item[k]]
       IN  Some([k \in 1..Len(sd[1]) |->
                   IF sd[1][k][1] = "paths"
                   THEN <<"paths", [n \in 1..Len(paths) |->
                                      <<paths[n][1], After(paths[n][2])>>]>>
                   ELSE sd[1][k]])

_parse_schemas(sd) ==
  IF sd = None THEN <<>>
  ELSE LET components         == Get(sd[1], "components", <<>>)
           schema_definitions == Get(components, "schemas", <<>>)
       IN  [i \in 1..Len(schema_definitions) |->
              ParsedSchema(schema_definitions[i][1], schema_definitions[i][2],
                           GetOpt(schema_definitions[i][2], "description"))]

_parse_servers(sd) ==
  IF sd = None THEN <<>> ELSE Get(sd[1], "servers", <<>>)

_parse_security_schemes(sd) ==
  IF sd = None THEN <<>>
  ELSE Get(Get(sd[1], "components", <<>>), "securitySchemes", <<>>)

\* _parse_tags reading the key of _parse_servers
_parse_tags_ReadsServers(sd) ==
  IF sd = None THEN <<>> ELSE Get(sd[1], "servers", <<>>)

_parse_tags(sd) ==
  IF sd = None THEN <<>> ELSE Get(sd[1], "tags", <<>>)

(***************************************************************************)
(* Input documents.  Building blocks first.                                *)
(***************************************************************************)
ParamA == << <<"name", "id">>, <<"in", "path">> >>

ParamB == << <<"name", "q">>, <<"in", "query">> >>

ParamC == << <<"name", "h">>, <<"in", "header">> >>

ParamD == << <<"name", "c">>, <<"in", "cookie">> >>

Resp200 == << <<"description", "ok">>,
              <<"content", << <<"application/json",
                               << <<"schema", "ItemRef">> >> >> >> >> >>

\* an operation with nothing but the mandatory responses
OpBare == << <<"responses", << <<<<"2","0","0">>, Resp200>> >> >> >>

\* an operation with an operationId, its own parameters, tags and a body
OpFull == << <<"operationId", <<"G","e","t","-","A">>>>,
             <<"summary", "sum">>,
             <<"parameters", <<ParamB, ParamA>> >>,
             <<"requestBody", "BodyRef">>,
             <<"responses", << <<<<"2","0","0">>, Resp200>> >> >>,
             <<"tags", <<"t1">> >>,
             <<"security", << "apiKey" >> >> >>

\* an operation without operationId, with one parameter of its own
OpAnon == << <<"description", "desc">>,
             <<"parameters", <<ParamC>> >>,
             <<"responses", << <<<<"4","0","4">>, << <<"description", "nf">> >> >> >> >>,
             <<"tags", <<"t2", "t1">> >> >>

Operations == {OpBare, OpFull, OpAnon}

K_ext == <<"x","-","e">>

K_trace == <<"t","r","a","c","e">>

K_GET == <<"G","E","T">>

\* keys of the generated path items: verbs and keys the walk must skip
ItemKeyPool == {K_get, K_delete, K_parameters, K_trace, K_GET}

IsMethod(k) == \E i \in 1..Len(Methods) : Methods[i] = k

Injective(f) == \A i, j \in DOMAIN f : f[i] = f[j] => i = j

KeySeqs == UNION { {ks \in [1..n -> ItemKeyPool] : Injective(ks)} :
                   n \in 0..MaxItemKeys }

\* the path item with keys ks: the first verb key carries op, later verb
\* keys carry OpAnon, and the non-verb keys carry their usual values
PathItemOf(ks, op) ==
  [i \in 1..Len(ks) |->
     <<ks[i],
       IF ks[i] = K_parameters THEN <<ParamA, ParamD>>
       ELSE IF ks[i] = K_ext THEN <<>>
       ELSE IF ks[i] \in {K_trace, K_GET} THEN OpFull
       ELSE IF \E j \in 1..(i-1) : IsMethod(ks[j]) THEN OpAnon
       ELSE op>>]

U_items == <<"/","i">>

U_item == <<"/","i","/","{","x","}">>

U_health == <<"/","h">>

InfoFull == << <<"title", <<"M","y","-","A","p","i"," ","v">>>>, <<"version", "2.0">> >>

SchemaItem == << <<"type", "object">>,
                 <<"description", "an item">>,
                 <<"required", <<"id">> >>,
                 <<"properties", << <<"id", << <<"type", "integer">> >> >>,
                                    <<"at", << <<"type", "string">>,
                                               <<"format", "date-time">> >> >>
                                  >> >> >>

ComponentsFull ==
  << <<"schemas", << <<<<"i","t","e","m">>, SchemaItem>>,
                     <<<<"B","s">>, <<>> >> >> >>,
     <<"securitySchemes", << <<"apiKey", << <<"type", "apiKey">> >> >> >> >> >>

PathsFull ==
  << <<U_item, PathItemOf(<<K_parameters, K_delete, K_get, K_ext>>, OpFull)>>,
     <<U_items, PathItemOf(<<K_post, K_trace, K_get>>, OpBare)>>,
     <<U_health, PathItemOf(<<K_options, K_head, K_patch, K_put>>, OpBare)>> >>

TopSections ==
  << <<"info", InfoFull>>,
     <<"paths", PathsFull>>,
     <<"components", ComponentsFull>>,
     <<"servers", << "http://localhost" >> >>,
     <<"tags", << "t1", "t2" >> >> >>

FullDoc == <<<<"openapi", "3.0.0">>>> \o TopSections

\* documents with any subset of the optional top-level sections
SparseDocs ==
  { <<<<"openapi", "3.1.0">>>>
      \o SelectSeq(TopSections, LAMBDA kv : kv[1] \in keep) :
    keep \in SUBSET {"info", "paths", "components", "servers", "tags"} }

\* documents whose components section lacks schemas, securitySchemes or both
SparseComponentDocs ==
  { << <<"openapi", "3.0.0">>, <<"info", InfoFull>>,
       <<"components", SelectSeq(ComponentsFull, LAMBDA kv : kv[1] \in keep)>> >> :
    keep \in SUBSET {"schemas", "securitySchemes"} }

\* documents with one path whose item carries any key sequence
OnePathDocs ==
  { << <<"openapi", "3.0.0">>, <<"info", <<>> >>,
       <<"paths", << <<U_item, PathItemOf(ks, op)>> >> >> >> :
    ks \in KeySeqs, op \in Operations }

\* the minimal document: one GET /health with an operationId, nothing else
HealthDoc ==
  << <<"openapi", "3.0.0">>,
     <<"info", << <<"title", <<"H">>>>, <<"version", "1">> >> >>,
     <<"paths", << <<U_health,
                     << <<K_get, << <<"operationId", <<"h","e","a","l","t","h","_","c","h","e","c","k">>>>,
                                    <<"responses", << <<<<"2","0","0">>, Resp200>> >> >> >> >>
                     >> >> >> >> >>

\* the documents the builder is run on
BuildDocs ==
  {FullDoc, HealthDoc} \cup SparseDocs \cup SparseComponentDocs \cup OnePathDocs

\* the documents used where the order of calls is what matters
ProtocolDocs == {HealthDoc, <<<<"openapi", "3.1.0">>>>}

(***************************************************************************)
(* The file system the parser reads.  A file has a content kind ("yaml":   *)
(* YAML text that is not JSON, "json", "garbage": neither, "missing": no   *)
(* such file), the document its text deserializes to, and the verdict of   *)
(* the validation collaborator with its diagnostic.                        *)
(***************************************************************************)
F_a == <<"a",".","y","a","m","l">>

F_b == <<"b",".","J","S","O","N">>

F_c == <<"c",".","t","x","t">>

F_d == <<"d",".","y","m","l">>

F_e == <<"e",".","j","s","o","n">>

FilePaths == {F_a, F_b, F_c, F_d, F_e}

File(kind, doc, valid) == [kind |-> kind, doc |-> doc, valid |-> valid]

FileSystems(docs, bads) ==
  { [p \in FilePaths |->
       IF p = F_a THEN File("yaml", d, TRUE)
       ELSE IF p = F_b THEN File("json", FullDoc, TRUE)
       ELSE IF p = F_c THEN File("yaml", FullDoc, TRUE)
       ELSE IF p = F_d THEN File(bad, <<>>, FALSE)
       ELSE File("json", HealthDoc, FALSE)] :
    d \in docs, bad \in bads }

VARIABLES
  files,      \* the file system: path -> file
  spec_data,  \* OpenAPIParser.spec_data: None or Some(document)
  pc,         \* 0 when no parse is running, else the index into ParseSteps
  spec_path,  \* the argument of the running parse
  frame,      \* the local variables parse has assigned so far, as a dict
  calls,      \* the methods the running parse has called so far
  returned,   \* the outcome of every finished call, oldest first
  budget,     \* the number of calls the caller will still make
  fn_in,      \* the input of a derived-property evaluation
  fn_out,     \* its result
  info_shared, \* the outcomes whose ParsedSpec.info is the very mapping
               \* object stored under "info" in the document the parser holds
  cli,        \* the generate command: its arguments, locals and position
  gen         \* the CodeGenerator the command runs: files written, loop index

vars == <<files, spec_data, pc, spec_path, frame, calls, returned, budget,
          fn_in, fn_out, info_shared, cli, gen>>

\* pathlib's PurePath.suffix of a path without directories
LastDot(name) ==
  IF \E i \in 1..Len(name) : name[i] = "."
  THEN CHOOSE i \in 1..Len(name) :
         name[i] = "." /\ \A j \in (i+1)..Len(name) : name[j] # "."
  ELSE 0

Suffix(name) ==
  LET i == LastDot(name)
  IN  IF 1 < i /\ i < Len(name) THEN SubSeq(name, i, Len(name)) ELSE <<>>

ValueError(msg) == [type |-> "ValueError", msg |-> msg]

\* yaml.safe_load taking text it cannot scan for an empty document
YamlLoad_GarbageIsEmpty(f) ==
  IF f.kind = "missing" THEN [ok |-> FALSE, cause |-> "No such file or directory"]
  ELSE IF f.kind = "garbage" THEN [ok |-> TRUE, doc |-> <<>>]
  ELSE [ok |-> TRUE, doc |-> f.doc]

\* open() followed by yaml.safe_load / json.load: the document, or the cause
YamlLoad(f) ==
  IF f.kind = "missing" THEN [ok |-> FALSE, cause |-> "No such file or directory"]
  ELSE IF f.kind = "garbage" THEN [ok |-> FALSE, cause |-> "could not scan document"]
  ELSE [ok |-> TRUE, doc |-> f.doc]

JsonLoad(f) ==
  IF f.kind = "missing" THEN [ok |-> FALSE, cause |-> "No such file or directory"]
  ELSE IF f.kind # "json" THEN [ok |-> FALSE, cause |-> "Expecting value"]
  ELSE [ok |-> TRUE, doc |-> f.doc]

\* the load keeping a document the parser already holds
LoadResult_KeepsLoaded(path, f, old) ==
  LET ext == Lower(Suffix(path))
      r   == IF ext \in {<<".","y","a","m","l">>, <<".","y","m","l">>} THEN YamlLoad(f)
             ELSE IF ext = <<".","j","s","o","n">> THEN JsonLoad(f)
             ELSE [ok |-> FALSE, cause |-> <<"Unsupported file format: ", Suffix(path)>>]
  IN  IF r.ok THEN [ok |-> TRUE, spec_data |-> IF old = None THEN Some(r.doc) ELSE old]
      ELSE [ok |-> FALSE, spec_data |-> old,
            error |-> ValueError(<<"Failed to load specification file: ", r.cause>>)]

\* lines 215-225: the new spec_data, or the error raised
LoadResult(path, f, old) ==
  LET ext == Lower(Suffix(path))
      r   == IF ext \in {<<".","y","a","m","l">>, <<".","y","m","l">>} THEN YamlLoad(f)
             ELSE IF ext = <<".","j","s","o","n">> THEN JsonLoad(f)
             ELSE [ok |-> FALSE,
                   cause |-> ValueError(<<"Unsupported file format: ", Suffix(path)>>).msg]
  IN  IF r.ok THEN [ok |-> TRUE, spec_data |-> Some(r.doc)]
      ELSE [ok |-> FALSE, spec_data |-> old,
            error |-> ValueError(<<"Failed to load specification file: ", r.cause>>)]

\* read_from_filename followed by validate_spec, the validation collaborator:
\* None when it accepts the file, else Some(diagnostic) of what it raised
CollaboratorVerdict(f) ==
  IF f.kind = "missing" THEN Some("No such file or directory")
  ELSE IF f.kind = "garbage" THEN Some("could not scan document")
  ELSE IF ~f.valid THEN Some("not valid under the OpenAPI schema")
  ELSE None

\* validate wrapping only what validate_spec raises, not what the read raises
ValidateResult_ReadErrorsEscape(f) ==
  IF CollaboratorVerdict(f) = None THEN None
  ELSE IF f.kind \in {"missing", "garbage"}
       THEN Some([type |-> "OSError", msg |-> CollaboratorVerdict(f)])
       ELSE Some(ValueError(<<"Invalid OpenAPI specification: ">>
                              \o CollaboratorVerdict(f)))

\* OpenAPIParser.validate: None on normal return, else Some(error)
ValidateResult(f) ==
  IF CollaboratorVerdict(f) = None THEN None
  ELSE Some(ValueError(<<"Invalid OpenAPI specification: ">>
                         \o CollaboratorVerdict(f)))

\* parse with the validation moved after the first sub-walk
ParseSteps_InfoBeforeValidate ==
  <<"load", "_parse_info", "validate", "_parse_endpoints",
    "_parse_schemas", "_parse_servers", "_parse_security_schemes",
    "_parse_tags", "return">>

\* the statements of parse after the call, in program order
ParseSteps == <<"load", "validate", "_parse_info", "_parse_endpoints",
                "_parse_schemas", "_parse_servers", "_parse_security_schemes",
                "_parse_tags", "return">>

SubWalks == {"_parse_info", "_parse_endpoints", "_parse_schemas",
             "_parse_servers", "_parse_security_schemes", "_parse_tags"}

At(step) == pc > 0 /\ ParseSteps[pc] = step

Outcome(op, path, status, value, log) ==
  [op |-> op, path |-> path, status |-> status, value |-> value, calls |-> log]

\* the arguments of the generate command
Args(spec, output_exists, force, framework, enable_llm, llm_available) ==
  [spec |-> spec, output_exists |-> output_exists, force |-> force,
   framework |-> framework, enable_llm |-> enable_llm,
   llm_available |-> llm_available]

\* the command at the given position with the given locals
Cli(at, args, enable_llm, llm_enhancer, parsed, exit_code, output) ==
  [pc |-> at, args |-> args, enable_llm |-> enable_llm,
   llm_enhancer |-> llm_enhancer, parsed |-> parsed, exit_code |-> exit_code,
   output |-> output]

\* the generator at the given position
Gen(at, enable_llm, llm_enhancer, spec, generated_files, disk, i, log, warnings, failed_at, result) ==
  [pc |-> at, enable_llm |-> enable_llm, llm_enhancer |-> llm_enhancer,
   spec |-> spec, generated_files |-> generated_files, disk |-> disk, i |-> i,
   log |-> log, warnings |-> warnings, failed_at |-> failed_at,
   result |-> result]

\* no command is running and no generator exists
NoCommand ==
  /\ cli = Cli("idle", Args(F_a, FALSE, FALSE, "fastapi", FALSE, FALSE),
               FALSE, FALSE, None, -1, "absent")
  /\ gen = Gen("idle", FALSE, FALSE, None, <<>>, <<>>, 1, <<>>, 0, "none", None)

\* a new parser, OpenAPIParser.__init__, and no call made yet
NewParser ==
  /\ spec_data = None
  /\ pc = 0
  /\ spec_path = <<>>
  /\ frame = <<>>
  /\ calls = <<>>
  /\ returned = <<>>
  /\ info_shared = {}

Init ==
  /\ files \in FileSystems(ProtocolDocs, {"garbage", "missing"})
  /\ NewParser
  /\ NoCommand
  /\ budget = MaxCalls
  /\ fn_in = <<>>
  /\ fn_out = <<>>

\* one call on a file system whose first file holds any of the BuildDocs
InitBuild ==
  /\ files \in FileSystems(BuildDocs, {"garbage"})
  /\ NewParser
  /\ NoCommand
  /\ budget = MaxBuildCalls
  /\ fn_in = <<>>
  /\ fn_out = <<>>

\* a caller invokes parser.parse(path)
CallParse(path) ==
  /\ pc = 0
  /\ budget > 0
  /\ budget' = budget - 1
  /\ pc' = 1
  /\ spec_path' = path
  /\ frame' = <<>>
  /\ calls' = <<>>
  /\ UNCHANGED <<files, spec_data, returned, fn_in, fn_out, info_shared, cli, gen>>

\* a failing statement: the exception leaves parse
Raise(error, log) ==
  /\ returned' = Append(returned, Outcome("parse", spec_path, "raise", error, log))
  /\ pc' = 0
  /\ spec_path' = <<>>
  /\ frame' = <<>>
  /\ calls' = <<>>

Load ==
  /\ At("load")
  /\ LET r == LoadResult(spec_path, files[spec_path], spec_data)
     IN  /\ spec_data' = r.spec_data
         /\ IF r.ok
            THEN /\ pc' = pc + 1
                 /\ calls' = Append(calls, "load")
                 /\ UNCHANGED <<spec_path, frame, returned>>
            ELSE Raise(r.error, Append(calls, "load"))
         /\ info_shared' = IF r.ok THEN {} ELSE info_shared
  /\ UNCHANGED <<files, budget, fn_in, fn_out, cli, gen>>

\* self.validate(spec_path) inside parse
Validate ==
  /\ At("validate")
  /\ LET r == ValidateResult(files[spec_path])
     IN  IF r = None
         THEN /\ pc' = pc + 1
              /\ calls' = Append(calls, "validate")
              /\ UNCHANGED <<spec_path, frame, returned>>
         ELSE Raise(r[1], calls \o <<"validate", "validate raised">>)
  /\ UNCHANGED <<files, spec_data, budget, fn_in, fn_out, info_shared, cli, gen>>

\* one of the six assignments local = self._parse_...()
SubWalk(name, value) ==
  /\ At(name)
  /\ frame' = Append(frame, <<name, value>>)
  /\ calls' = Append(calls, name)
  /\ pc' = pc + 1
  /\ UNCHANGED <<files, spec_data, spec_path, returned, budget, fn_in, fn_out, info_shared,
                 cli, gen>>

ParseInfo == SubWalk("_parse_info", _parse_info(spec_data))

ParseEndpoints ==
  /\ At("_parse_endpoints")
  /\ frame' = Append(frame, <<"_parse_endpoints", _parse_endpoints(spec_data)>>)
  /\ calls' = Append(calls, "_parse_endpoints")
  /\ pc' = pc + 1
  /\ spec_data' = DocumentAfterEndpoints(spec_data)
  /\ UNCHANGED <<files, spec_path, returned, budget, fn_in, fn_out, info_shared,
                 cli, gen>>

ParseSchemas == SubWalk("_parse_schemas", _parse_schemas(spec_data))

ParseServers == SubWalk("_parse_servers", _parse_servers(spec_data))

ParseSecuritySchemes ==
  SubWalk("_parse_security_schemes", _parse_security_schemes(spec_data))

ParseTags == SubWalk("_parse_tags", _parse_tags(spec_data))

\* a parser that keeps one ParsedSpec object and refills it on every parse
Return_ReusesResult ==
  /\ At("return")
  /\ LET new == ParsedSpec(Item(frame, "_parse_info"),
                           Item(frame, "_parse_endpoints"),
                           Item(frame, "_parse_schemas"),
                           Item(frame, "_parse_servers"),
                           Item(frame, "_parse_security_schemes"),
                           Item(frame, "_parse_tags"))
     IN  returned' = Append([i \in 1..Len(returned) |->
                               IF returned[i].op = "parse" /\ returned[i].status = "ok"
                               THEN [returned[i] EXCEPT !.value = new]
                               ELSE returned[i]],
                            Outcome("parse", spec_path, "ok", new, calls))
  /\ pc' = 0
  /\ spec_path' = <<>>
  /\ frame' = <<>>
  /\ calls' = <<>>
  /\ info_shared' = IF InfoIsDocumentObject(spec_data)
                    THEN info_shared \cup {Len(returned) + 1}
                    ELSE info_shared
  /\ UNCHANGED <<files, spec_data, budget, fn_in, fn_out, cli, gen>>

Return ==
  /\ At("return")
  /\ returned' = Append(returned,
       Outcome("parse", spec_path, "ok",
               ParsedSpec(Item(frame, "_parse_info"),
                          Item(frame, "_parse_endpoints"),
                          Item(frame, "_parse_schemas"),
                          Item(frame, "_parse_servers"),
                          Item(frame, "_parse_security_schemes"),
                          Item(frame, "_parse_tags")),
               calls))
  /\ pc' = 0
  /\ spec_path' = <<>>
  /\ frame' = <<>>
  /\ calls' = <<>>
  /\ info_shared' = IF InfoIsDocumentObject(spec_data)
                    THEN info_shared \cup {Len(returned) + 1}
                    ELSE info_shared
  /\ UNCHANGED <<files, spec_data, budget, fn_in, fn_out, cli, gen>>

\* validate keeping the document it read in the parser
CallValidate_KeepsDocument(path) ==
  /\ pc = 0
  /\ budget > 0
  /\ budget' = budget - 1
  /\ spec_data' = IF files[path].kind \in {"yaml", "json"}
                  THEN Some(files[path].doc) ELSE spec_data
  /\ LET r == ValidateResult(files[path])
     IN  returned' = Append(returned,
           IF r = None THEN Outcome("validate", path, "ok", <<>>, <<>>)
           ELSE Outcome("validate", path, "raise", r[1], <<>>))
  /\ UNCHANGED <<files, pc, spec_path, frame, calls, fn_in, fn_out, info_shared,
                 cli, gen>>

\* a caller invokes parser.validate(path) on its own
CallValidate(path) ==
  /\ pc = 0
  /\ budget > 0
  /\ budget' = budget - 1
  /\ LET r == ValidateResult(files[path])
     IN  returned' = Append(returned,
           IF r = None THEN Outcome("validate", path, "ok", <<>>, <<>>)
           ELSE Outcome("validate", path, "raise", r[1], <<>>))
  /\ UNCHANGED <<files, spec_data, pc, spec_path, frame, calls, fn_in, fn_out, info_shared,
                 cli, gen>>

\* the caller replaces its parser by a new one, keeping the results it holds
NewInstance ==
  /\ pc = 0
  /\ spec_data # None
  /\ spec_data' = None
  /\ info_shared' = {}
  /\ UNCHANGED <<files, pc, spec_path, frame, calls, returned, budget, fn_in,
                 fn_out, cli, gen>>

\* d[k] = v on a dict
SetItem(d, k, v) ==
  IF Has(d, k)
  THEN [i \in 1..Len(d) |-> IF d[i][1] = k THEN <<k, v>> ELSE d[i]]
  ELSE Append(d, <<k, v>>)

\* del d[k] on a dict
DelItem(d, k) == SelectSeq(d, LAMBDA kv : kv[1] # k)

\* the changes a holder of an info mapping makes to it: add, replace, remove
InfoUpdates == {<<"set", "title", <<"X">> >>, <<"set", "license", <<"M">> >>,
                <<"del", "title", <<>> >>}

ApplyUpdate(d, u) ==
  IF u[1] = "set" THEN SetItem(d, u[2], u[3]) ELSE DelItem(d, u[2])

\* a holder of the parser changes the info mapping of the held document;
\* every ParsedSpec whose info is that object shows the change
MutateDocumentInfo(u) ==
  /\ pc = 0
  /\ spec_data # None
  /\ Has(spec_data[1], "info")
  /\ spec_data' = Some(SetItem(spec_data[1], "info",
                               ApplyUpdate(Item(spec_data[1], "info"), u)))
  /\ returned' = [i \in 1..Len(returned) |->
                    IF i \in info_shared
                    THEN [returned[i] EXCEPT !.value.info = ApplyUpdate(@, u)]
                    ELSE returned[i]]
  /\ UNCHANGED <<files, pc, spec_path, frame, calls, budget, fn_in, fn_out,
                 info_shared, cli, gen>>

\* a holder of a returned ParsedSpec changes its info mapping; the held
\* document shows the change when the mapping is its own object
MutateResultInfo(i, u) ==
  /\ pc = 0
  /\ i \in 1..Len(returned)
  /\ returned[i].op = "parse" /\ returned[i].status = "ok"
  /\ returned' = [returned EXCEPT ![i].value.info = ApplyUpdate(@, u)]
  /\ spec_data' = IF i \in info_shared
                  THEN Some(SetItem(spec_data[1], "info",
                                    ApplyUpdate(Item(spec_data[1], "info"), u)))
                  ELSE spec_data
  /\ UNCHANGED <<files, pc, spec_path, frame, calls, budget, fn_in, fn_out,
                 info_shared, cli, gen>>

Next ==
  \/ \E path \in FilePaths : CallParse(path)
  \/ Load
  \/ Validate
  \/ ParseInfo
  \/ ParseEndpoints
  \/ ParseSchemas
  \/ ParseServers
  \/ ParseSecuritySchemes
  \/ ParseTags
  \/ Return
  \/ \E path \in FilePaths : CallValidate(path)
  \/ NewInstance

Spec == Init /\ [][Next]_vars

SpecBuild == InitBuild /\ [][Next]_vars

(***************************************************************************)
(* Evaluation of the derived properties on their own: the inputs are drawn *)
(* from bounded sets, an entity is constructed from them as the parser     *)
(* constructs it, and each derived property is evaluated once.             *)
\* the parser among holders that change the info mappings they can reach
InitAlias ==
  /\ files \in FileSystems({HealthDoc, <<<<"openapi", "3.1.0">>>>}, {"garbage"})
  /\ NewParser
  /\ NoCommand
  /\ budget = MaxAliasCalls
  /\ fn_in = <<>>
  /\ fn_out = <<>>

NextAlias ==
  \/ Next
  \/ \E u \in InfoUpdates : MutateDocumentInfo(u)
  \/ \E i \in 1..MaxAliasCalls, u \in InfoUpdates : MutateResultInfo(i, u)

SpecAlias == InitAlias /\ [][NextAlias]_vars

(***************************************************************************)
(* The generate command of the CLI and the CodeGenerator it runs.  A file  *)
(* of the output directory is a name with its text; the LLM provider is    *)
(* the environment: each call of it raises, or returns None or a text.     *)
(***************************************************************************)
N_main == <<"m","a","i","n",".","p","y">>

N_requirements == <<"r","e","q","u","i","r","e","m","e","n","t","s",".","t","x","t">>

N_tests_init == <<"t","e","s","t","s","/","_","_","i","n","i","t","_","_",".","p","y">>

\* the files generate writes, in the order it lists them
GeneratedFiles == <<N_main, N_requirements, N_tests_init>>

\* the text a file is generated with: tests/__init__.py is written empty
GeneratedContent(name) == IF name = N_tests_init THEN "" ELSE "generated"

\* str.endswith(suffix)
EndsWithSeq(s, suffix) ==
  /\ Len(s) >= Len(suffix)
  /\ SubSeq(s, Len(s) - Len(suffix) + 1, Len(s)) = suffix

\* what a call of the provider does
ProviderResults ==
  { [status |-> "raise", value |-> None],
    [status |-> "return", value |-> None],
    [status |-> "return", value |-> Some("")],
    [status |-> "return", value |-> Some("generated")],
    [status |-> "return", value |-> Some("enhanced")] }

\* enhance_code letting a failure of the provider through
enhance_code_Propagates(provider) == provider

\* LLMEnhancer.enhance_code: what the provider returned, None when it raised
enhance_code(provider) ==
  IF provider.status = "raise" THEN [status |-> "return", value |-> None]
  ELSE provider

\* the test of line 686 written as "is not None"
ShouldRewrite_AcceptsEmpty(enhanced_content, original_content) ==
  enhanced_content # None /\ enhanced_content[1] # original_content

\* if enhanced_content and enhanced_content != original_content
ShouldRewrite(enhanced_content, original_content) ==
  /\ enhanced_content # None
  /\ enhanced_content[1] # ""
  /\ enhanced_content[1] # original_content

python_files(g) ==
  SelectSeq(g.generated_files, LAMBDA f : EndsWithSeq(f, <<".", "p", "y">>))

\* the handler of line 692: a warning is logged and the loop goes on
Warned(g) == [g EXCEPT !.warnings = @ + 1, !.i = @ + 1]

\* one iteration of the loop of _apply_llm_enhancements; io says whether the
\* read or the write of the file fails, torn is the text a failed write
\* leaves in the file it had opened
EnhanceStep(g, provider, io, torn) ==
  LET file_path == python_files(g)[g.i]
  IN  IF ~Has(g.disk, file_path) THEN [g EXCEPT !.i = @ + 1]
      ELSE IF io = "read fails" THEN Warned(g)
      ELSE LET original_content == Item(g.disk, file_path)
               r      == enhance_code(provider)
               logged == [g EXCEPT !.log = Append(@, [file |-> file_path,
                                                      provider |-> provider,
                                                      result |-> r])]
           IN  IF r.status = "raise" THEN Warned(logged)
               ELSE IF ~ShouldRewrite(r.value, original_content)
                    THEN [logged EXCEPT !.i = @ + 1]
               ELSE IF io = "write fails"
                    THEN Warned([logged EXCEPT
                                   !.disk = SetItem(@, file_path, torn)])
               ELSE [logged EXCEPT !.disk = SetItem(@, file_path, r.value[1]),
                                   !.i = @ + 1]

\* OpenAPIParser().parse(spec_path) as the command sees it
ParseOutcome(path) ==
  LET f == files[path]
      l == LoadResult(path, f, None)
  IN  IF ~l.ok \/ ValidateResult(f) # None THEN [ok |-> FALSE, value |-> None]
      ELSE [ok |-> TRUE,
            value |-> Some(ParsedSpec(_parse_info(l.spec_data),
                                      _parse_endpoints(l.spec_data),
                                      _parse_schemas(l.spec_data),
                                      _parse_servers(l.spec_data),
                                      _parse_security_schemes(l.spec_data),
                                      _parse_tags(l.spec_data)))]

SpecMissing(args) == files[args.spec].kind = "missing"

\* the output check without the test of the directory
OutputCheckFails_IgnoresExisting(args) == FALSE

OutputCheckFails(args) == args.output_exists /\ ~args.force

FrameworkCheckFails(args) == args.framework # "fastapi"

\* raise typer.Exit(code), and the return of the command as code 0
Exit(code) == cli' = [cli EXCEPT !.pc = "exit", !.exit_code = code]

Goto(at) == cli' = [cli EXCEPT !.pc = at]

CliFrame ==
  UNCHANGED <<files, spec_data, pc, spec_path, frame, calls, returned, budget,
              fn_in, fn_out, info_shared>>

CheckSpec ==
  /\ cli.pc = "check spec"
  /\ IF SpecMissing(cli.args) THEN Exit(1) ELSE Goto("check output")
  /\ UNCHANGED gen
  /\ CliFrame

CheckOutput ==
  /\ cli.pc = "check output"
  /\ IF OutputCheckFails(cli.args) THEN Exit(1) ELSE Goto("check framework")
  /\ UNCHANGED gen
  /\ CliFrame

CheckFramework ==
  /\ cli.pc = "check framework"
  /\ IF FrameworkCheckFails(cli.args) THEN Exit(1) ELSE Goto("parse")
  /\ UNCHANGED gen
  /\ CliFrame

ParseSpec ==
  /\ cli.pc = "parse"
  /\ LET r == ParseOutcome(cli.args.spec)
     IN  IF r.ok
         THEN cli' = [cli EXCEPT !.pc = "init llm", !.parsed = r.value]
         ELSE Exit(1)
  /\ UNCHANGED gen
  /\ CliFrame

\* LLMEnhancer(provider=llm_provider) under try: a failure disables the
\* enhancement and the command goes on
InitEnhancer ==
  /\ cli.pc = "init llm"
  /\ cli' = IF ~cli.enable_llm THEN [cli EXCEPT !.pc = "generate"]
            ELSE IF cli.args.llm_available
                 THEN [cli EXCEPT !.pc = "generate", !.llm_enhancer = TRUE]
                 ELSE [cli EXCEPT !.pc = "generate", !.enable_llm = FALSE]
  /\ UNCHANGED gen
  /\ CliFrame

\* CodeGenerator(...) and the call of generate
InvokeGenerator ==
  /\ cli.pc = "generate"
  /\ Goto("generating")
  /\ gen' = Gen("mkdir", cli.enable_llm, cli.llm_enhancer, cli.parsed,
                <<>>, <<>>, 1, <<>>, 0, "none", None)
  /\ CliFrame

\* output_dir.mkdir(parents=True, exist_ok=True)
MakeOutputDir ==
  /\ gen.pc = "mkdir"
  /\ gen' = [gen EXCEPT !.pc = "files"]
  /\ cli' = [cli EXCEPT !.output = IF @ = "absent" THEN "created" ELSE @]
  /\ CliFrame

\* the files are rendered and written, or a template or a write raises
GenerateFiles ==
  /\ gen.pc = "files"
  /\ \/ /\ gen' = [gen EXCEPT
                      !.pc = IF gen.enable_llm /\ gen.llm_enhancer
                             THEN "enhance" ELSE "return",
                      !.generated_files = GeneratedFiles,
                      !.disk = [k \in 1..Len(GeneratedFiles) |->
                                  <<GeneratedFiles[k],
                                    GeneratedContent(GeneratedFiles[k])>>]]
        /\ cli' = [cli EXCEPT !.output = "written"]
     \/ /\ gen' = [gen EXCEPT !.pc = "raised", !.failed_at = "files"]
        /\ cli' = [cli EXCEPT !.output = "written"]
  /\ CliFrame

EnhanceFile ==
  /\ gen.pc = "enhance"
  /\ gen.i <= Len(python_files(gen))
  /\ \E provider \in ProviderResults,
        io \in {"ok", "read fails", "write fails"},
        torn \in {"", Item(gen.disk, python_files(gen)[gen.i])} :
       gen' = EnhanceStep(gen, provider, io, torn)
  /\ UNCHANGED cli
  /\ CliFrame

FinishEnhancements ==
  /\ gen.pc = "enhance"
  /\ gen.i > Len(python_files(gen))
  /\ gen' = [gen EXCEPT !.pc = "return"]
  /\ UNCHANGED cli
  /\ CliFrame

ReturnResult ==
  /\ gen.pc = "return"
  /\ gen' = [gen EXCEPT
               !.pc = "returned",
               !.result = Some([generated_files |-> gen.generated_files,
                                total_endpoints |-> Len(gen.spec[1].endpoints),
                                total_schemas |-> Len(gen.spec[1].schemas)])]
  /\ UNCHANGED cli
  /\ CliFrame

\* the command after generate returned or raised
FinishCommand ==
  /\ cli.pc = "generating"
  /\ gen.pc \in {"returned", "raised"}
  /\ Exit(IF gen.pc = "returned" THEN 0 ELSE 1)
  /\ UNCHANGED gen
  /\ CliFrame

ArgsSet ==
  { Args(spec, output_exists, force, framework, enable_llm, llm_available) :
      spec \in FilePaths, output_exists \in BOOLEAN, force \in BOOLEAN,
      framework \in {"fastapi", "flask"}, enable_llm \in BOOLEAN,
      llm_available \in BOOLEAN }

InitCli ==
  /\ files \in FileSystems({HealthDoc}, {"garbage", "missing"})
  /\ NewParser
  /\ budget = 0
  /\ fn_in = <<>>
  /\ fn_out = <<>>
  /\ cli \in { Cli("check spec", args, args.enable_llm, FALSE, None, -1,
                    IF args.output_exists THEN "exists" ELSE "absent") :
                args \in ArgsSet }
  /\ gen = Gen("idle", FALSE, FALSE, None, <<>>, <<>>, 1, <<>>, 0, "none", None)

NextCli ==
  \/ CheckSpec
  \/ CheckOutput
  \/ CheckFramework
  \/ ParseSpec
  \/ InitEnhancer
  \/ InvokeGenerator
  \/ MakeOutputDir
  \/ GenerateFiles
  \/ EnhanceFile
  \/ FinishEnhancements
  \/ ReturnResult
  \/ FinishCommand

SpecCli == InitCli /\ [][NextCli]_vars

(***************************************************************************)
UrlChars == {"/", "a", "B", "{", "}"}

UrlPaths ==
  { <<"/">> \o t : t \in UNION { [1..n -> UrlChars] : n \in 0..MaxPathLen } }
    \cup {<<"/","i","t","e","m","s","/","{","i","t","e","m","_","i","d","}">>, <<"/","h","e","a","l","t","h">>}

NameChars == {"a", "s", "S", "-", " ", "_"}

Names ==
  UNION { [1..n -> NameChars] : n \in 0..MaxNameLen }
    \cup {<<"i","t","e","m">>, <<"i","t","e","m","s">>, <<"I","t","e","m","C","r","e","a","t","e">>}

OperationIds ==
  UNION { [1..n -> {"a", "B", "-", "_"}] : n \in 0..MaxNameLen }
    \cup {<<"h","e","a","l","t","h","_","c","h","e","c","k">>}

TypeOpts == {None, Some("string"), Some("integer"), Some("number"),
             Some("boolean"), Some("array"), Some("object"), Some("null")}

FormatOpts == {None, Some("date-time"), Some("date"), Some("email"),
               Some("uuid")}

ItemsOpts == {None, Some(<<>>), Some(<< <<"type", "string">> >>),
              Some(<< <<"type", "integer">> >>),
              Some(<< <<"format", "int32">> >>)}

\* the property schema with the given optional type, format and items
PropertyOf(t, f, it) ==
  (IF t = None THEN <<>> ELSE << <<"type", t[1]>> >>)
    \o (IF f = None THEN <<>> ELSE << <<"format", f[1]>> >>)
    \o (IF it = None THEN <<>> ELSE << <<"items", it[1]>> >>)

EndpointInputs ==
  { <<"endpoint", path, method, <<>> >> :
      path \in UrlPaths, method \in {Methods[i] : i \in 1..Len(Methods)} }
  \cup
  { <<"endpoint", path, method, << <<"operationId", id>> >> >> :
      path \in {U_health, U_item}, method \in {K_get, K_delete},
      id \in OperationIds }

SchemaInputs ==
  { <<"schema", name, SchemaItem, "id">> : name \in Names }
  \cup
  { <<"schema", <<"i","t","e","m">>,
      << <<"properties", << <<"p", PropertyOf(t, f, it)>> >> >> >>, prop_name>> :
      t \in TypeOpts, f \in FormatOpts, it \in ItemsOpts,
      prop_name \in {"p", "q"} }

SchemaNames == {<<"a">>, <<"A">>, <<"a","_","b">>, <<"A","B">>,
                <<"a","B">>, <<"A","b">>}

SchemaNameSeqs ==
  {ks \in UNION { [1..n -> SchemaNames] : n \in 0..MaxSchemas } : Injective(ks)}

\* a document declaring empty schemas under the given names, in order
SchemasDoc(names) ==
  << <<"components",
       << <<"schemas", [i \in 1..Len(names) |-> <<names[i], <<>> >>] >> >> >> >>

LookupInputs ==
  { <<"lookup", SchemasDoc(names), name>> :
      names \in SchemaNameSeqs, name \in SchemaNames \cup {<<"b">>} }

TagOpts == {None, Some(<<>>), Some(<<"t1">>), Some(<<"t2">>),
            Some(<<"t1", "t2">>), Some(<<"t1", "t1">>)}

OpWithTags(t) == IF t = None THEN <<>> ELSE << <<"tags", t[1]>> >>

\* a document of three operations on two paths with the given tags
TagsDoc(t1, t2, t3) ==
  << <<"paths", << <<U_items, << <<K_get, OpWithTags(t1)>>,
                                 <<K_post, OpWithTags(t2)>> >> >>,
                   <<U_health, << <<K_get, OpWithTags(t3)>> >> >> >> >> >>

TagInputs ==
  { <<"tags", TagsDoc(t1, t2, t3), tag>> :
      t1 \in TagOpts, t2 \in TagOpts, t3 \in TagOpts,
      tag \in {"t1", "t2", "t3"} }

Titles ==
  UNION { [1..n -> {"A", " ", "-"}] : n \in 0..MaxNameLen }
    \cup {<<"M","y","-","A","p","i"," ","v">>}

\* the info mapping with the given optional title, version and description
InfoOf(t, v, d) ==
  (IF t = None THEN <<>> ELSE << <<"title", t[1]>> >>)
    \o (IF v = None THEN <<>> ELSE << <<"version", v[1]>> >>)
    \o (IF d = None THEN <<>> ELSE << <<"description", d[1]>> >>)

InfoInputs ==
  { <<"info", <<>> >> }
  \cup
  { <<"info", << <<"info", InfoOf(t, v, d)>> >> >> :
      t \in {None} \cup {Some(x) : x \in Titles},
      v \in {None, Some("2.0")}, d \in {None, Some("about")} }

\* a document of two endpoints on one path and one schema
ObjectDoc ==
  << <<"openapi", "3.0.0">>,
     <<"info", InfoFull>>,
     <<"paths", << <<U_item, << <<K_get, OpFull>>, <<K_delete, OpAnon>> >> >> >> >>,
     <<"components", << <<"schemas", << <<<<"i","t","e","m">>, SchemaItem>> >> >> >> >> >>

\* the ParsedSpec objects accessors are called on
ObjectInputs ==
  { <<"object",
      ParsedSpec(_parse_info(Some(doc)), _parse_endpoints(Some(doc)),
                 _parse_schemas(Some(doc)), _parse_servers(Some(doc)),
                 _parse_security_schemes(Some(doc)), _parse_tags(Some(doc)))>> :
    doc \in {ObjectDoc, HealthDoc} }

StatusCodes == {<<"2","0","0">>, <<"2","0","1">>, <<"2","X","X">>, <<"4","0","4">>, <<"d","e","f","a","u","l","t">>}

ResponseOpts ==
  { <<>>,
    << <<"description", "ok">>, <<"content", <<>> >> >>,
    << <<"content", << <<"text/plain", << <<"schema", "TextRef">> >> >> >> >> >>,
    << <<"content", << <<"application/json", << <<"example", "e">> >> >> >> >> >>,
    << <<"content", << <<"application/json", << <<"schema", "RefA">> >> >> >> >> >>,
    Resp200 }

\* the responses mappings of up to MaxResponses status codes, in any order
ResponsesOpts ==
  UNION { { [i \in 1..n |-> <<codes[i], resps[i]>>] :
              codes \in {c \in [1..n -> StatusCodes] : Injective(c)},
              resps \in [1..n -> ResponseOpts] } : n \in 0..MaxResponses }

ResponsesInputs ==
  { <<"responses", U_health, K_get, << <<"responses", rs>> >> >> :
      rs \in ResponsesOpts }

PathSegments == {<<"i","t","e","m","s">>, <<"{","i","t","e","m","_","i","d","}">>, <<>>}

\* the paths of one to MaxSegments segments, each preceded by "/"
SegmentPaths ==
  { <<"/">> \o Join(segs, <<"/">>) :
      segs \in UNION { [1..n -> PathSegments] : n \in 1..MaxSegments } }

\* two endpoints of one method, without operationId
PairInputs ==
  { <<"pair", p1, p2, method>> :
      p1 \in SegmentPaths, p2 \in SegmentPaths, method \in {K_get, K_delete} }

\* a parameter that declares no location
ParamE == << <<"name", "n">> >>

ParamsInputs ==
  { <<"params", U_health, K_get, << <<"parameters", ps>> >> >> :
      ps \in UNION { [1..n -> {ParamA, ParamB, ParamC, ParamD, ParamE}] :
                      n \in 0..MaxParams } }

InitFn ==
  /\ files \in FileSystems({HealthDoc}, {"missing"})
  /\ NewParser
  /\ NoCommand
  /\ budget = 0
  /\ fn_in \in EndpointInputs \cup SchemaInputs \cup LookupInputs
                \cup TagInputs \cup InfoInputs \cup ObjectInputs
                \cup ResponsesInputs \cup PairInputs
                \cup ParamsInputs
  /\ fn_out = <<>>

Evaluated(name) == \E i \in 1..Len(fn_out) : fn_out[i][1] = name

Result(name) == fn_out[CHOOSE i \in 1..Len(fn_out) : fn_out[i][1] = name][2]

Evaluate(name, value) ==
  /\ ~Evaluated(name)
  /\ fn_out' = Append(fn_out, <<name, value>>)
  /\ UNCHANGED <<files, spec_data, pc, spec_path, frame, calls, returned,
                 budget, fn_in, info_shared, cli, gen>>

\* the endpoint _parse_endpoints builds for fn_in
TheEndpoint == MakeEndpoint(fn_in[2], fn_in[3], fn_in[4], <<>>)

\* the schema _parse_schemas builds for fn_in
TheSchema == ParsedSchema(fn_in[2], fn_in[3], GetOpt(fn_in[3], "description"))

EvalFunctionName ==
  /\ fn_in[1] = "endpoint"
  /\ Evaluate("function_name", function_name(TheEndpoint))

EvalTableName ==
  /\ fn_in[1] = "schema"
  /\ Evaluate("table_name", table_name(TheSchema))

EvalPropertyType ==
  /\ fn_in[1] = "schema"
  /\ Evaluate("get_property_type", get_property_type(TheSchema, fn_in[4]))

\* the ParsedSpec parse returns for the document of fn_in
TheSpec ==
  LET sd == Some(fn_in[2])
  IN  ParsedSpec(_parse_info(sd), _parse_endpoints(sd), _parse_schemas(sd),
                 _parse_servers(sd), _parse_security_schemes(sd),
                 _parse_tags(sd))

EvalGetSchemaByName ==
  /\ fn_in[1] = "lookup"
  /\ Evaluate("get_schema_by_name", get_schema_by_name(TheSpec, fn_in[3]))

EvalGetEndpointsByTag ==
  /\ fn_in[1] = "tags"
  /\ Evaluate("get_endpoints_by_tag", get_endpoints_by_tag(TheSpec, fn_in[3]))

EvalTitle ==
  /\ fn_in[1] = "info"
  /\ Evaluate("title", title(TheSpec))

EvalVersion ==
  /\ fn_in[1] = "info"
  /\ Evaluate("version", version(TheSpec))

EvalDescription ==
  /\ fn_in[1] = "info"
  /\ Evaluate("description", description(TheSpec))

EvalProjectName ==
  /\ fn_in[1] = "info"
  /\ Evaluate("project_name", project_name(TheSpec))

\* the calls a holder of the ParsedSpec can make: accessor, position of the
\* endpoint or schema it is called on (0 for the ParsedSpec), argument
AccessorCalls(self) ==
  { <<name, 0, <<>> >> :
      name \in {"title", "version", "description", "project_name"} }
  \cup { <<"get_endpoints_by_tag", 0, tag>> : tag \in {"t1", "t2", "t3"} }
  \cup { <<"get_schema_by_name", 0, name>> :
           name \in {<<"i","t","e","m">>, <<"I","t","e","m">>, <<"x">>} }
  \cup { <<name, n, <<>> >> :
           name \in {"function_name", "path_params", "query_params",
                     "header_params", "has_request_body",
                     "get_success_response_schema"},
           n \in 1..Len(self.endpoints) }
  \cup { <<name, n, <<>> >> :
           name \in {"class_name", "table_name"}, n \in 1..Len(self.schemas) }
  \cup { <<name, n, prop_name>> :
           name \in {"get_property_type", "is_required"},
           n \in 1..Len(self.schemas), prop_name \in {"id", "at"} }

\* what the call returns
AccessorResult(self, call) ==
  LET name == call[1]
      n    == call[2]
      arg  == call[3]
  IN  CASE name = "title" -> title(self)
        [] name = "version" -> version(self)
        [] name = "description" -> description(self)
        [] name = "project_name" -> project_name(self)
        [] name = "get_endpoints_by_tag" -> get_endpoints_by_tag(self, arg)
        [] name = "get_schema_by_name" -> get_schema_by_name(self, arg)
        [] name = "function_name" -> function_name(self.endpoints[n])
        [] name = "path_params" -> path_params(self.endpoints[n])
        [] name = "query_params" -> query_params(self.endpoints[n])
        [] name = "header_params" -> header_params(self.endpoints[n])
        [] name = "has_request_body" -> has_request_body(self.endpoints[n])
        [] name = "get_success_response_schema"
             -> get_success_response_schema(self.endpoints[n])
        [] name = "class_name" -> class_name(self.schemas[n])
        [] name = "table_name" -> table_name(self.schemas[n])
        [] name = "get_property_type"
             -> get_property_type(self.schemas[n], arg)
        [] name = "is_required" -> is_required(self.schemas[n], arg)

\* an accessor keeping the list it computed as the endpoints of the object
AccessorEffect_FiltersInPlace(self, call, result) ==
  IF call[1] = "get_endpoints_by_tag"
  THEN [self EXCEPT !.endpoints = result]
  ELSE self

\* the object after the call returned: no accessor assigns to a field of
\* the ParsedSpec, of an endpoint or of a schema
AccessorEffect(self, call, result) == self

\* a holder of the ParsedSpec in fn_in calls one of its accessors
CallAccessor ==
  /\ fn_in[1] = "object"
  /\ Len(fn_out) < MaxQueries
  /\ \E call \in AccessorCalls(fn_in[2]) :
       LET result == AccessorResult(fn_in[2], call)
       IN  /\ fn_out' = Append(fn_out, <<call[1], call, result>>)
           /\ fn_in' = <<"object", AccessorEffect(fn_in[2], call, result)>>
  /\ UNCHANGED <<files, spec_data, pc, spec_path, frame, calls, returned,
                 budget, info_shared, cli, gen>>

EvalSuccessResponseSchema ==
  /\ fn_in[1] = "responses"
  /\ Evaluate("get_success_response_schema",
              get_success_response_schema(TheEndpoint))

EvalClassName ==
  /\ fn_in[1] = "schema"
  /\ Evaluate("class_name", class_name(TheSchema))

\* function_name of the two endpoints of fn_in
EvalFunctionNames ==
  /\ fn_in[1] = "pair"
  /\ Evaluate("function_names",
              <<function_name(MakeEndpoint(fn_in[2], fn_in[4], <<>>, <<>>)),
                function_name(MakeEndpoint(fn_in[3], fn_in[4], <<>>, <<>>))>>)

EvalPathParams ==
  /\ fn_in[1] = "params"
  /\ Evaluate("path_params", path_params(TheEndpoint))

EvalQueryParams ==
  /\ fn_in[1] = "params"
  /\ Evaluate("query_params", query_params(TheEndpoint))

EvalHeaderParams ==
  /\ fn_in[1] = "params"
  /\ Evaluate("header_params", header_params(TheEndpoint))

NextFn ==
  \/ EvalFunctionName
  \/ EvalTableName
  \/ EvalPropertyType
  \/ EvalGetSchemaByName
  \/ EvalGetEndpointsByTag
  \/ EvalTitle
  \/ EvalVersion
  \/ EvalDescription
  \/ EvalProjectName
  \/ CallAccessor
  \/ EvalSuccessResponseSchema
  \/ EvalClassName
  \/ EvalFunctionNames
  \/ EvalPathParams
  \/ EvalQueryParams
  \/ EvalHeaderParams

SpecFn == InitFn /\ [][NextFn]_vars

(***************************************************************************)
(* Properties.                                                             *)
(***************************************************************************)
Outcomes == 1..Len(returned)

IsParse(i) == returned[i].op = "parse"

\* the document behind a finished call
DocOf(i) == files[returned[i].path].doc

\* the file of call i can be loaded by parse and passes the validator
WellFormed(i) ==
  /\ LoadResult(returned[i].path, files[returned[i].path], None).ok
  /\ files[returned[i].path].valid

HasSubWalk(log) == \E k \in 1..Len(log) : log[k] \in SubWalks

\* C1: in parse the validator is called before any sub-walk, and when the
\* validator rejects the file no sub-walk runs and no ParsedSpec is built.
C1_ValidateBeforeSubWalks ==
  /\ \A log \in {calls} \cup {returned[i].calls : i \in Outcomes} :
       \A k \in 1..Len(log) :
         log[k] \in SubWalks => \E j \in 1..(k - 1) : log[j] = "validate"
  /\ pc > 0 /\ ~files[spec_path].valid => ~HasSubWalk(calls) /\ frame = <<>>
  /\ \A i \in Outcomes :
       IsParse(i) /\ ~files[returned[i].path].valid =>
         returned[i].status = "raise" /\ ~HasSubWalk(returned[i].calls)

\* a parse stopped by the validator, and a parse that ran its sub-walks
C1_Witness ==
  /\ \E i \in Outcomes :
       /\ IsParse(i) /\ returned[i].status = "raise"
       /\ returned[i].calls = <<"load", "validate", "validate raised">>
  /\ \E i \in Outcomes :
       IsParse(i) /\ returned[i].status = "ok" /\ HasSubWalk(returned[i].calls)

RecognisedVerbs == {K_get, K_post, K_put, K_patch, K_delete, K_head, K_options}

PathsOf(doc) == Get(doc, "paths", <<>>)

\* the (path, key) pairs of a document whose key is a recognised verb
VerbPairs(doc) ==
  UNION { { <<i, j>> : j \in { j \in 1..Len(PathsOf(doc)[i][2]) :
                                 PathsOf(doc)[i][2][j][1] \in RecognisedVerbs } } :
          i \in 1..Len(PathsOf(doc)) }

\* C2: a parse of a well-formed file succeeds with as many endpoints as the
\* document has (path, key) pairs whose key is one of the seven verbs.
C2_EndpointCount ==
  \A i \in Outcomes :
    IsParse(i) /\ WellFormed(i) =>
      /\ returned[i].status = "ok"
      /\ Len(returned[i].value.endpoints) = Cardinality(VerbPairs(DocOf(i)))

\* a parsed path item with a verb key next to a key that is no verb
C2_Witness ==
  \E i \in Outcomes :
    /\ IsParse(i) /\ returned[i].status = "ok"
    /\ Len(returned[i].value.endpoints) = 1
    /\ \E n \in 1..Len(PathsOf(DocOf(i))) :
         LET item == PathsOf(DocOf(i))[n][2]
         IN  /\ Len(item) = 2
             /\ \E j \in 1..Len(item) : item[j][1] \in {K_ext, K_trace, K_GET}

\* the operation in the document an endpoint was built from
ItemOfEndpoint(doc, e) == Item(PathsOf(doc), e.path)

OperationOfEndpoint(doc, e) == Item(ItemOfEndpoint(doc, e), Lower(e.method))

\* C3: the parameters of every endpoint are the path item's parameters in
\* order followed by the operation's parameters in order, nothing dropped.
C3_ParameterOrder ==
  \A i \in Outcomes :
    IsParse(i) /\ returned[i].status = "ok" =>
      \A n \in 1..Len(returned[i].value.endpoints) :
        LET e == returned[i].value.endpoints[n]
            P == Get(ItemOfEndpoint(DocOf(i), e), K_parameters, <<>>)
            Q == Get(OperationOfEndpoint(DocOf(i), e), "parameters", <<>>)
        IN  /\ Len(e.parameters) = Len(P) + Len(Q)
            /\ \A k \in 1..Len(P) : e.parameters[k] = P[k]
            /\ \A k \in 1..Len(Q) : e.parameters[Len(P) + k] = Q[k]

\* an endpoint with a parameter declared at both levels, kept twice
C3_Witness ==
  \E i \in Outcomes :
    /\ IsParse(i) /\ returned[i].status = "ok"
    /\ \E n \in 1..Len(returned[i].value.endpoints) :
         returned[i].value.endpoints[n].parameters
           = <<ParamA, ParamD, ParamB, ParamA>>

NoOperationId == Get(fn_in[4], "operationId", <<>>) = <<>>

\* the kept segments of path from the cut at position a on, joined by "_"
RECURSIVE JoinedSegments(_, _, _)
JoinedSegments(path, a, first) ==
  IF a > Len(path) THEN <<>>
  ELSE LET b == CHOOSE c \in (a + 1)..(Len(path) + 1) :
                  /\ c = Len(path) + 1 \/ path[c] = "/"
                  /\ \A d \in (a + 1)..(c - 1) : path[d] # "/"
           seg  == SubSeq(path, a + 1, b - 1)
           keep == seg # <<>> /\ seg[1] # "{"
       IN  (IF keep THEN (IF first THEN <<>> ELSE <<"_">>) \o seg ELSE <<>>)
             \o JoinedSegments(path, b, first /\ ~keep)

\* C4: without an operationId the identifier is the lowercased method, an
\* underscore, and the kept path segments joined by underscores.
C4_DerivedIdentifier ==
  fn_in[1] = "endpoint" /\ NoOperationId /\ Evaluated("function_name") =>
    /\ Result("function_name")
         = fn_in[3] \o <<"_">> \o JoinedSegments(fn_in[2], 0, TRUE)
    /\ fn_in[2] = <<"/">> => Result("function_name") = fn_in[3] \o <<"_">>

\* GET /items/{item_id} without operationId evaluated to "get_items"
C4_Witness ==
  /\ fn_in = <<"endpoint", <<"/","i","t","e","m","s","/","{","i","t","e","m","_","i","d","}">>, K_get, <<>> >>
  /\ Evaluated("function_name")
  /\ Result("function_name") = <<"g","e","t","_","i","t","e","m","s">>

\* C5: with an operationId the identifier is the operationId with every
\* upper-case letter lowered and every hyphen turned into an underscore.
C5_IdentifierFromOperationId ==
  fn_in[1] = "endpoint" /\ ~NoOperationId /\ Evaluated("function_name") =>
    LET id == Item(fn_in[4], "operationId")
        r  == Result("function_name")
    IN  /\ Len(r) = Len(id)
        /\ \A k \in 1..Len(id) :
             r[k] = IF id[k] = "-" THEN "_"
                    ELSE IF id[k] = "B" THEN "b"
                    ELSE id[k]

\* operationId health_check on GET /health evaluated to "health_check"
C5_Witness ==
  /\ fn_in = <<"endpoint", U_health, K_get,
               << <<"operationId", <<"h","e","a","l","t","h","_","c","h","e","c","k">>>> >> >>
  /\ Evaluated("function_name")
  /\ Result("function_name") = <<"h","e","a","l","t","h","_","c","h","e","c","k">>

\* C6: a parse of a well-formed file succeeds whatever sections are missing,
\* and every missing section gives the empty collection.
C6_MissingSectionsDefault ==
  \A i \in Outcomes :
    IsParse(i) /\ WellFormed(i) =>
      LET doc == DocOf(i)
          ir  == returned[i].value
          components == Get(doc, "components", <<>>)
      IN  /\ returned[i].status = "ok"
          /\ ~Has(doc, "paths") => ir.endpoints = <<>>
          /\ ~Has(doc, "components") =>
               ir.schemas = <<>> /\ ir.security_schemes = <<>>
          /\ ~Has(components, "schemas") => ir.schemas = <<>>
          /\ ~Has(components, "securitySchemes") => ir.security_schemes = <<>>
          /\ ~Has(doc, "servers") => ir.servers = <<>>
          /\ ~Has(doc, "tags") => ir.tags = <<>>

\* a parsed document with servers but none of paths, components and tags
C6_Witness ==
  \E i \in Outcomes :
    /\ IsParse(i) /\ returned[i].status = "ok"
    /\ ~Has(DocOf(i), "paths") /\ ~Has(DocOf(i), "components")
    /\ ~Has(DocOf(i), "tags") /\ Has(DocOf(i), "servers")
    /\ returned[i].value.endpoints = <<>> /\ returned[i].value.tags = <<>>

\* the type table: the result for an optional type, format and item schema
TypeTable(t, f, items) ==
  CASE t = Some("string") /\ f = Some("date-time") -> <<"datetime">>
    [] t = Some("string") /\ f = Some("date") -> <<"date">>
    [] t = Some("string") /\ f \notin {Some("date-time"), Some("date")} -> <<"str">>
    [] t = Some("integer") -> <<"int">>
    [] t = Some("number") -> <<"float">>
    [] t = Some("boolean") -> <<"bool">>
    [] t = Some("array") ->
         <<"List[", IF Has(items, "type") THEN Item(items, "type") ELSE "Any", "]">>
    [] OTHER -> <<"Any">>

\* C7: get_property_type follows the type table on the declared type and
\* format; an unknown or absent type, or an absent property, gives "Any".
C7_TypeTable ==
  fn_in[1] = "schema" /\ Evaluated("get_property_type") =>
    LET props == Get(fn_in[3], "properties", <<>>)
        r     == Result("get_property_type")
    IN  IF Has(props, fn_in[4])
        THEN LET prop == Item(props, fn_in[4])
             IN  r = TypeTable(GetOpt(prop, "type"), GetOpt(prop, "format"),
                               Get(prop, "items", <<>>))
        ELSE r = <<"Any">>

\* an array property without an item type evaluated to a list of "Any"
C7_Witness ==
  /\ fn_in[1] = "schema" /\ Evaluated("get_property_type")
  /\ Has(Get(fn_in[3], "properties", <<>>), fn_in[4])
  /\ LET prop == Item(Item(fn_in[3], "properties"), fn_in[4])
     IN  GetOpt(prop, "type") = Some("array") /\ ~Has(prop, "items")
  /\ Result("get_property_type") = <<"List[", "Any", "]">>

\* the name lowercased with hyphens and spaces turned into underscores
Normalised(name) ==
  [k \in 1..Len(name) |->
     IF name[k] \in {"-", " "} THEN "_"
     ELSE IF name[k] = "S" THEN "s"
     ELSE IF name[k] = "I" THEN "i"
     ELSE IF name[k] = "C" THEN "c"
     ELSE name[k]]

\* C8: table_name is the normalised name, with an "s" appended exactly when
\* it does not end in "s"; it ends in "s" and is a fixed point of the rule.
C8_TableName ==
  fn_in[1] = "schema" /\ Evaluated("table_name") =>
    LET n == Normalised(fn_in[2])
        r == Result("table_name")
    IN  /\ r = IF Len(n) > 0 /\ n[Len(n)] = "s" THEN n ELSE n \o <<"s">>
        /\ r[Len(r)] = "s"
        /\ table_name(ParsedSchema(r, fn_in[3], None)) = r
        /\ fn_in[2] = <<"i","t","e","m","s">> => r = <<"i","t","e","m","s">>

\* the name "item" evaluated to "items"
C8_Witness ==
  /\ fn_in[1] = "schema" /\ fn_in[2] = <<"i","t","e","m">>
  /\ Evaluated("table_name")
  /\ Result("table_name") = <<"i","t","e","m","s">>

\* C9: two successful parses of the same document, by the same parser or by
\* a new one, with whatever calls in between, return equal ParsedSpecs.
C9_Idempotence ==
  \A i, j \in Outcomes :
    /\ IsParse(i) /\ returned[i].status = "ok"
    /\ IsParse(j) /\ returned[j].status = "ok"
    /\ DocOf(i) = DocOf(j)
    => returned[i].value = returned[j].value

\* the same file parsed twice with a parse of another document in between
C9_Witness ==
  \E i, k, j \in Outcomes :
    /\ i < k /\ k < j
    /\ IsParse(i) /\ returned[i].status = "ok"
    /\ IsParse(j) /\ returned[j].status = "ok"
    /\ returned[i].path = returned[j].path
    /\ IsParse(k) /\ DocOf(k) # DocOf(i)
    /\ LoadResult(returned[k].path, files[returned[k].path], None).ok
    /\ Len(returned[i].value.endpoints) > 0

Supported(path) ==
  Lower(Suffix(path)) \in {<<".","y","a","m","l">>, <<".","y","m","l">>, <<".","j","s","o","n">>}

\* C10: a parse of a file with an unsupported extension fails with the
\* UnsupportedFormat error itself, naming the extension, not wrapped in the
\* error used for load failures.
C10_UnsupportedFormatVerbatim ==
  \A i \in Outcomes :
    IsParse(i) /\ ~Supported(returned[i].path) =>
      /\ returned[i].status = "raise"
      /\ returned[i].value.msg
           = <<"Unsupported file format: ", Suffix(returned[i].path)>>


\* the loader chosen by the extension of call i's file cannot read it
LoadFails(i) ==
  LET path == returned[i].path
      f    == files[path]
  IN  /\ Supported(path)
      /\ \/ f.kind \in {"missing", "garbage"}
         \/ Lower(Suffix(path)) = <<".","j","s","o","n">> /\ f.kind # "json"

Ran(i) == {returned[i].calls[k] : k \in 1..Len(returned[i].calls)}

\* C11: a parse whose file cannot be read or deserialized raises the load
\* error wrapping the cause, having called neither the validator nor a
\* sub-walk; every parse either raises an error or returns a ParsedSpec
\* built by all six sub-walks.
C11_AllOrNothing ==
  \A i \in Outcomes :
    IsParse(i) =>
      /\ LoadFails(i) =>
           /\ returned[i].status = "raise"
           /\ Len(returned[i].value.msg) = 2
           /\ returned[i].value.msg[1] = "Failed to load specification file: "
           /\ returned[i].value.msg[2]
                \in {"No such file or directory", "could not scan document",
                     "Expecting value"}
           /\ returned[i].calls = <<"load">>
      /\ returned[i].status \in {"ok", "raise"}
      /\ returned[i].status = "raise" =>
           /\ returned[i].value.type = "ValueError"
           /\ SubWalks \cap Ran(i) = {}
      /\ returned[i].status = "ok" =>
           /\ SubWalks \cup {"validate"} \subseteq Ran(i)
           /\ DOMAIN returned[i].value
                = {"info", "endpoints", "schemas", "servers",
                   "security_schemes", "tags"}

\* a parse of a file that cannot be scanned has raised the load error
C11_Witness ==
  \E i \in Outcomes :
    /\ IsParse(i) /\ LoadFails(i) /\ files[returned[i].path].kind = "garbage"
    /\ returned[i].status = "raise"
    /\ returned[i].value.msg
         = <<"Failed to load specification file: ", "could not scan document">>

IsValidate(i) == returned[i].op = "validate"

\* C12: a call of validate, on its own or inside parse, changes neither the
\* document the parser holds nor any outcome returned before.
C12_ValidateHasNoEffect ==
  [][ /\ ( /\ Len(returned') = Len(returned) + 1
           /\ returned'[Len(returned')].op = "validate" )
        => /\ spec_data' = spec_data
           /\ SubSeq(returned', 1, Len(returned)) = returned
      /\ At("validate")
        => /\ spec_data' = spec_data
           /\ SubSeq(returned', 1, Len(returned)) = returned ]_vars

\* validate called before any parse, and a failing validate called after a
\* successful parse whose document the parser still holds
C12_Witness ==
  /\ Len(returned) = 3
  /\ IsValidate(1)
  /\ IsParse(2) /\ returned[2].status = "ok"
  /\ IsValidate(3) /\ returned[3].status = "raise"
  /\ spec_data = Some(DocOf(2))
  /\ DocOf(3) # DocOf(2)

\* C13: validate returns normally exactly when the collaborator accepts the
\* file, and otherwise raises the error "Invalid OpenAPI specification: "
\* followed by the collaborator's diagnostic, and no other error.
C13_ValidateOutcome ==
  \A i \in Outcomes :
    LET verdict == CollaboratorVerdict(files[returned[i].path])
    IN  /\ IsValidate(i) =>
             /\ returned[i].status = "ok" <=> verdict = None
             /\ returned[i].status = "raise" =>
                  returned[i].value
                    = [type |-> "ValueError",
                       msg  |-> <<"Invalid OpenAPI specification: ", verdict[1]>>]
        /\ IsParse(i) /\ "validate raised" \in Ran(i) =>
             /\ verdict # None
             /\ returned[i].value
                  = [type |-> "ValueError",
                     msg  |-> <<"Invalid OpenAPI specification: ", verdict[1]>>]

\* validate has accepted one file, rejected a readable file that is not
\* valid, and rejected a file that cannot be read
C13_Witness ==
  /\ \E i \in Outcomes : IsValidate(i) /\ returned[i].status = "ok"
  /\ \E i \in Outcomes :
       /\ IsValidate(i) /\ returned[i].status = "raise"
       /\ files[returned[i].path].kind = "json"
  /\ \E i \in Outcomes :
       /\ IsValidate(i) /\ returned[i].status = "raise"
       /\ files[returned[i].path].kind \in {"missing", "garbage"}


\* the seven upper-case method names, each with its key in a path item
VerbTable ==
  { <<<<"G","E","T">>, K_get>>,
    <<<<"P","O","S","T">>, K_post>>,
    <<<<"P","U","T">>, K_put>>,
    <<<<"P","A","T","C","H">>, K_patch>>,
    <<<<"D","E","L","E","T","E">>, K_delete>>,
    <<<<"H","E","A","D">>, K_head>>,
    <<<<"O","P","T","I","O","N","S">>, K_options>> }

\* C14: the method of every endpoint is one of the seven upper-case names,
\* and its path with the lower-case name is a key pair of the document.
C14_MethodDomain ==
  \A i \in Outcomes :
    IsParse(i) /\ returned[i].status = "ok" =>
      \A n \in 1..Len(returned[i].value.endpoints) :
        LET e == returned[i].value.endpoints[n]
        IN  \E row \in VerbTable :
              /\ e.method = row[1]
              /\ Has(PathsOf(DocOf(i)), e.path)
              /\ Has(Item(PathsOf(DocOf(i)), e.path), row[2])

\* a DELETE endpoint parsed from a path item that also has an upper-case
\* or unrecognised key
C14_Witness ==
  \E i \in Outcomes :
    /\ IsParse(i) /\ returned[i].status = "ok"
    /\ \E n \in 1..Len(returned[i].value.endpoints) :
         LET e == returned[i].value.endpoints[n]
         IN  /\ e.method = <<"D","E","L","E","T","E">>
             /\ Has(Item(PathsOf(DocOf(i)), e.path), K_delete)
             /\ \/ Has(Item(PathsOf(DocOf(i)), e.path), K_GET)
                \/ Has(Item(PathsOf(DocOf(i)), e.path), K_trace)


\* the schema at position i of the ParsedSpec answers to the name
Answers(i, name) ==
  \/ TheSpec.schemas[i].name = name
  \/ class_name(TheSpec.schemas[i]) = name

\* C15: get_schema_by_name returns the first schema in document order whose
\* raw name or class name equals the argument, whichever of the two it is,
\* and nothing when no schema answers.
C15_FirstMatch ==
  fn_in[1] = "lookup" /\ Evaluated("get_schema_by_name") =>
    LET r == Result("get_schema_by_name")
        N == Len(TheSpec.schemas)
    IN  /\ r = None <=> ~\E i \in 1..N : Answers(i, fn_in[3])
        /\ r # None =>
             \E i \in 1..N :
               /\ r = Some(TheSpec.schemas[i])
               /\ Answers(i, fn_in[3])
               /\ \A j \in 1..(i - 1) : ~Answers(j, fn_in[3])

\* the first schema answers through its class name only, the second has the
\* raw name asked for, and the first was returned
C15_Witness ==
  /\ fn_in[1] = "lookup" /\ Evaluated("get_schema_by_name")
  /\ Len(TheSpec.schemas) = 2
  /\ TheSpec.schemas[1].name # fn_in[3]
  /\ TheSpec.schemas[2].name = fn_in[3]
  /\ Result("get_schema_by_name") = Some(TheSpec.schemas[1])

\* the positions of the endpoints that carry the tag
Tagged(tag) ==
  {i \in 1..Len(TheSpec.endpoints) :
     \E k \in 1..Len(TheSpec.endpoints[i].tags) :
       TheSpec.endpoints[i].tags[k] = tag}

\* C16: get_endpoints_by_tag returns the endpoints whose tags contain the
\* argument, each once, in the order of ParsedSpec.endpoints; an endpoint
\* without tags is never returned and an unused tag gives the empty list.
C16_TagFilter ==
  fn_in[1] = "tags" /\ Evaluated("get_endpoints_by_tag") =>
    LET r == Result("get_endpoints_by_tag")
        K == Tagged(fn_in[3])
    IN  /\ Len(r) = Cardinality(K)
        /\ \A i \in K :
             r[Cardinality({j \in K : j <= i})] = TheSpec.endpoints[i]
        /\ \A k \in 1..Len(r) : r[k].tags # <<>>
        /\ K = {} => r = <<>>

\* the first and third of three endpoints returned, the tag being the second
\* tag of one and listed twice by the other, the endpoint between untagged
C16_Witness ==
  /\ fn_in[1] = "tags" /\ Evaluated("get_endpoints_by_tag")
  /\ Tagged(fn_in[3]) = {1, 3}
  /\ TheSpec.endpoints[1].tags = <<"t1", "t2">> /\ fn_in[3] = "t2"
  /\ TheSpec.endpoints[2].tags = <<>>
  /\ Len(Result("get_endpoints_by_tag")) = 2

\* the info mapping of the document of fn_in, empty when it declares none
InfoOfDoc == IF Has(fn_in[2], "info") THEN Item(fn_in[2], "info") ELSE <<>>

\* C17: title, version and description return the value under their key of
\* the info mapping when present, else "Generated API", "1.0.0" and "",
\* also when the document has no info section.
C17_InfoDefaults ==
  fn_in[1] = "info" =>
    /\ Evaluated("title") =>
         Result("title") = IF Has(InfoOfDoc, "title")
                           THEN Item(InfoOfDoc, "title")
                           ELSE <<"G","e","n","e","r","a","t","e","d"," ","A","P","I">>
    /\ Evaluated("version") =>
         Result("version") = IF Has(InfoOfDoc, "version")
                             THEN Item(InfoOfDoc, "version") ELSE "1.0.0"
    /\ Evaluated("description") =>
         Result("description") = IF Has(InfoOfDoc, "description")
                                 THEN Item(InfoOfDoc, "description") ELSE ""

\* the three defaults returned for a document without info section
C17_Witness ==
  /\ fn_in[1] = "info" /\ ~Has(fn_in[2], "info")
  /\ Evaluated("title") /\ Evaluated("version") /\ Evaluated("description")
  /\ Result("version") = "1.0.0"

\* C18: project_name is the defaulted title lower-cased with every space
\* and hyphen replaced by an underscore, so it has no space, hyphen or
\* upper-case letter, and is "generated_api" when no title is declared.
C18_ProjectName ==
  fn_in[1] = "info" /\ Evaluated("project_name") =>
    LET r == Result("project_name")
        t == IF Has(InfoOfDoc, "title") THEN Item(InfoOfDoc, "title")
             ELSE <<"G","e","n","e","r","a","t","e","d"," ","A","P","I">>
    IN  /\ Len(r) = Len(t)
        /\ \A k \in 1..Len(t) :
             r[k] = IF t[k] \in {" ", "-"} THEN "_" ELSE LowerChar(t[k])
        /\ \A k \in 1..Len(r) : r[k] \notin {" ", "-"} /\ LowerChar(r[k]) = r[k]
        /\ ~Has(InfoOfDoc, "title") => r = <<"g","e","n","e","r","a","t","e","d","_","a","p","i">>

\* the project name of a title with a hyphen, a space and capitals
C18_Witness ==
  /\ fn_in[1] = "info" /\ Evaluated("project_name")
  /\ Has(InfoOfDoc, "title")
  /\ Item(InfoOfDoc, "title") = <<"M","y","-","A","p","i"," ","v">>
  /\ Result("project_name") = <<"m","y","_","a","p","i","_","v">>


\* C19: a call of any accessor of a ParsedSpec, of one of its endpoints or
\* of one of its schemas leaves every field of the object unchanged, and
\* returns what every earlier call of the same accessor with the same
\* argument returned.
C19_AccessorsArePure ==
  [][ fn_in[1] = "object" /\ Len(fn_out') = Len(fn_out) + 1 =>
        /\ fn_in' = fn_in
        /\ \A i \in 1..Len(fn_out) :
             fn_out[i][2] = fn_out'[Len(fn_out')][2] =>
               fn_out[i][3] = fn_out'[Len(fn_out')][3] ]_vars

\* get_endpoints_by_tag called twice with a tag that only some endpoints
\* of the object carry
C19_Witness ==
  /\ fn_in[1] = "object"
  /\ Len(fn_out) = 2
  /\ fn_out[1][1] = "get_endpoints_by_tag"
  /\ fn_out[2][2] = fn_out[1][2]
  /\ Len(fn_out[1][3]) = 1
  /\ Len(fn_in[2].endpoints) = 2


\* C20: the info of a ParsedSpec is a mapping object of its own, so no
\* change of a key of the held document's info shows in a returned
\* ParsedSpec, and no change of a key of a ParsedSpec's info shows in the
\* held document: no step changes both.
C20_InfoIsACopy ==
  [][ pc = 0 /\ pc' = 0 /\ Len(returned') = Len(returned)
        /\ spec_data # None /\ spec_data' # None
      => returned' = returned \/ spec_data' = spec_data ]_vars


\* C21: after parse has returned, with a ParsedSpec or with an error, the
\* parser holds no document: a new parser holds none, so a parser that is
\* not inside parse never holds one.
C21_DocumentNotRetained ==
  pc = 0 => spec_data = None


\* the positions of the responses of fn_in whose status code starts with "2"
SuccessPositions ==
  {i \in 1..Len(TheEndpoint.responses) : TheEndpoint.responses[i][1][1] = "2"}

\* C22: get_success_response_schema returns the application/json schema of
\* the first response in mapping order whose status code starts with "2";
\* nothing when there is no such response, and nothing when that first one
\* lacks content, application/json or schema, whatever later ones have.
C22_FirstSuccessResponse ==
  fn_in[1] = "responses" /\ Evaluated("get_success_response_schema") =>
    LET r == Result("get_success_response_schema")
    IN  IF SuccessPositions = {} THEN r = None
        ELSE LET first == CHOOSE i \in SuccessPositions :
                            \A j \in SuccessPositions : i <= j
                 resp  == TheEndpoint.responses[first][2]
             IN  IF /\ Has(resp, "content")
                    /\ Has(Item(resp, "content"), "application/json")
                    /\ Has(Item(Item(resp, "content"), "application/json"),
                           "schema")
                 THEN r = Some(Item(Item(Item(resp, "content"),
                                         "application/json"), "schema"))
                 ELSE r = None

\* nothing returned although the second 2xx response has a schema, the
\* first having none
C22_Witness ==
  /\ fn_in[1] = "responses" /\ Evaluated("get_success_response_schema")
  /\ SuccessPositions = {1, 2}
  /\ TheEndpoint.responses[2][2] = Resp200
  /\ Result("get_success_response_schema") = None


IsUpperCase(c) == LowerChar(c) # c

\* a name without separators that starts with a capital and has no two
\* capitals in a row
IsPascalCase(name) ==
  /\ name # <<>>
  /\ \A k \in 1..Len(name) : name[k] \notin {"-", " ", "_"}
  /\ IsUpperCase(name[1])
  /\ \A k \in 1..(Len(name) - 1) : ~(IsUpperCase(name[k]) /\ IsUpperCase(name[k + 1]))

\* C23: class_name contains none of '-', ' ' and '_', and a name that is
\* already PascalCase without separators is its own class_name.
C23_ClassNameIsPascalCase ==
  fn_in[1] = "schema" /\ Evaluated("class_name") =>
    /\ \A k \in 1..Len(Result("class_name")) :
         Result("class_name")[k] \notin {"-", " ", "_"}
    /\ IsPascalCase(fn_in[2]) => Result("class_name") = fn_in[2]


\* the fixed order of the methods within one path
VerbOrder ==
  << <<"G","E","T">>,
     <<"P","O","S","T">>,
     <<"P","U","T">>,
     <<"P","A","T","C","H">>,
     <<"D","E","L","E","T","E">>,
     <<"H","E","A","D">>,
     <<"O","P","T","I","O","N","S">> >>

VerbRank(method) == CHOOSE k \in 1..Len(VerbOrder) : VerbOrder[k] = method

\* the position of the path of an endpoint in the paths of the document
PathRank(doc, e) ==
  CHOOSE n \in 1..Len(PathsOf(doc)) : PathsOf(doc)[n][1] = e.path

\* C25: the endpoints of an earlier path of the document precede those of a
\* later path, and the endpoints of one path are in the order get, post,
\* put, patch, delete, head, options, whatever the order of the keys.
C25_EndpointOrder ==
  \A i \in Outcomes :
    IsParse(i) /\ returned[i].status = "ok" =>
      LET E == returned[i].value.endpoints
      IN  \A a, b \in 1..Len(E) :
            a < b =>
              \/ PathRank(DocOf(i), E[a]) < PathRank(DocOf(i), E[b])
              \/ /\ PathRank(DocOf(i), E[a]) = PathRank(DocOf(i), E[b])
                 /\ VerbRank(E[a].method) < VerbRank(E[b].method)

\* a document of several paths whose first path item has its delete key
\* before its get key, parsed into GET followed by DELETE
C25_Witness ==
  \E i \in Outcomes :
    /\ IsParse(i) /\ returned[i].status = "ok"
    /\ Len(PathsOf(DocOf(i))) > 1
    /\ LET item == PathsOf(DocOf(i))[1][2]
       IN  \E m, n \in 1..Len(item) :
             m < n /\ item[m][1] = K_delete /\ item[n][1] = K_get
    /\ returned[i].value.endpoints[1].method = <<"G","E","T">>
    /\ returned[i].value.endpoints[2].method = <<"D","E","L","E","T","E">>
    /\ returned[i].value.endpoints[2].path = returned[i].value.endpoints[1].path


\* C26: with path-level parameters P and several verbs on one path, each
\* endpoint has P followed by its own operation's parameters and nothing
\* of a sibling operation, and the document the parser holds is, after
\* the load and through the whole build, the document of the file.
C26_MergeLeavesDocument ==
  /\ pc > 0 /\ (\E k \in 1..Len(calls) : calls[k] = "load") =>
       spec_data = Some(files[spec_path].doc)
  /\ \A i \in Outcomes :
       IsParse(i) /\ returned[i].status = "ok" =>
         \A n \in 1..Len(returned[i].value.endpoints) :
           LET e == returned[i].value.endpoints[n]
           IN  e.parameters
                 = Get(ItemOfEndpoint(DocOf(i), e), K_parameters, <<>>)
                     \o Get(OperationOfEndpoint(DocOf(i), e), "parameters", <<>>)

\* a parsed path with path-level parameters and two verbs that each have
\* parameters of their own
C26_Witness ==
  \E i \in Outcomes :
    /\ IsParse(i) /\ returned[i].status = "ok"
    /\ \E m, n \in 1..Len(returned[i].value.endpoints) :
         LET a == returned[i].value.endpoints[m]
             b == returned[i].value.endpoints[n]
         IN  /\ m < n /\ a.path = b.path
             /\ Get(ItemOfEndpoint(DocOf(i), a), K_parameters, <<>>) # <<>>
             /\ Get(OperationOfEndpoint(DocOf(i), a), "parameters", <<>>) # <<>>
             /\ Get(OperationOfEndpoint(DocOf(i), b), "parameters", <<>>) # <<>>
             /\ Len(b.parameters) < Len(a.parameters) + Len(Get(OperationOfEndpoint(DocOf(i), b), "parameters", <<>>))


\* the segments of a path that are neither empty nor of the form {...}
NonParameterSegments(path) ==
  SelectSeq(Split(path, "/"),
            LAMBDA p : p # <<>> /\ ~(p[1] = "{" /\ p[Len(p)] = "}"))

\* C27: without operationId, two endpoints of the same method whose paths
\* have the same non-parameter segments, differing only in {...} segments,
\* empty segments or a trailing slash, have the same derived identifier.
C27_IdentifierNotUnique ==
  fn_in[1] = "pair" /\ Evaluated("function_names") =>
    ( NonParameterSegments(fn_in[2]) = NonParameterSegments(fn_in[3])
        => Result("function_names")[1] = Result("function_names")[2] )

\* GET /items and GET /items/{item_id} with one identifier
C27_Witness ==
  /\ fn_in[1] = "pair" /\ Evaluated("function_names")
  /\ fn_in[2] = <<"/","i","t","e","m","s">>
  /\ fn_in[3] = <<"/","i","t","e","m","s","/","{","i","t","e","m","_","i","d","}">>
  /\ fn_in[4] = K_get
  /\ Result("function_names") = <<<<"g","e","t","_","i","t","e","m","s">>, <<"g","e","t","_","i","t","e","m","s">>>>


\* the positions of the parameters of fn_in declared at the location
PositionsIn(location) ==
  {i \in 1..Len(TheEndpoint.parameters) :
     /\ Has(TheEndpoint.parameters[i], "in")
     /\ Item(TheEndpoint.parameters[i], "in") = location}

\* r is the parameters at the positions K, in order
IsSubsequenceAt(r, K) ==
  /\ Len(r) = Cardinality(K)
  /\ \A i \in K : r[Cardinality({j \in K : j <= i})] = TheEndpoint.parameters[i]

\* C28: path_params, query_params and header_params are the parameters
\* whose location is path, query and header, in the order of parameters;
\* no parameter is in two of them, and a parameter with location cookie or
\* without location is in none.
C28_ParameterSubsets ==
  fn_in[1] = "params" =>
    /\ \A name \in {"path", "query", "header"} :
         Evaluated(name \o "_params") =>
           /\ IsSubsequenceAt(Result(name \o "_params"), PositionsIn(name))
           /\ \A k \in 1..Len(Result(name \o "_params")) :
                /\ Result(name \o "_params")[k] \notin {ParamD, ParamE}
                /\ \A other \in {"path", "query", "header"} \ {name} :
                     Evaluated(other \o "_params") =>
                       \A n \in 1..Len(Result(other \o "_params")) :
                         Result(other \o "_params")[n]
                           # Result(name \o "_params")[k]
    /\ PositionsIn("path") \cup PositionsIn("query") \cup PositionsIn("header")
         = {i \in 1..Len(TheEndpoint.parameters) :
              TheEndpoint.parameters[i] \notin {ParamD, ParamE}}

\* the three subsets of a parameter list holding a cookie parameter, a
\* parameter without location and a path parameter, in that order
C28_Witness ==
  /\ fn_in[1] = "params"
  /\ TheEndpoint.parameters = <<ParamD, ParamE, ParamA>>
  /\ Evaluated("path_params") /\ Evaluated("query_params")
  /\ Evaluated("header_params")
  /\ Result("path_params") = <<ParamA>>
  /\ Result("query_params") = <<>>


\* the ParsedSpec of a document taken on its own
BuiltFrom(doc) ==
  ParsedSpec(_parse_info(Some(doc)), _parse_endpoints(Some(doc)),
             _parse_schemas(Some(doc)), _parse_servers(Some(doc)),
             _parse_security_schemes(Some(doc)), _parse_tags(Some(doc)))

\* C30: no step of a later parse or validate call, whether it succeeds or
\* fails at load or at validation, changes an outcome returned before, and
\* a parse that succeeds returns the ParsedSpec of its own document alone.
C30_ResultsAreIndependent ==
  [][ /\ SubSeq(returned', 1, Len(returned)) = returned
      /\ ( /\ Len(returned') = Len(returned) + 1
           /\ returned'[Len(returned')].op = "parse"
           /\ returned'[Len(returned')].status = "ok" )
        => returned'[Len(returned')].value
             = BuiltFrom(files[returned'[Len(returned')].path].doc) ]_vars

\* a ParsedSpec still that of its document after a parse that failed at
\* load and a parse of another document that succeeded
C30_Witness ==
  /\ Len(returned) = 3
  /\ IsParse(1) /\ returned[1].status = "ok"
  /\ IsParse(2) /\ returned[2].status = "raise" /\ returned[2].calls = <<"load">>
  /\ IsParse(3) /\ returned[3].status = "ok"
  /\ DocOf(3) # DocOf(1)
  /\ returned[1].value = BuiltFrom(DocOf(1))
  /\ returned[3].value # returned[1].value


\* C24: enhance_code never raises and gives None when the provider fails; a
\* generated file has another text than it was generated with only if it
\* is a .py file for which the enhancer returned a non-empty text different
\* from the original; and generate, which can raise while it writes the
\* files, does not raise once the enhancement loop has started.
C24_EnhancementNeverFails ==
  gen.pc # "idle" =>
    /\ \A k \in 1..Len(gen.log) :
         /\ gen.log[k].result.status = "return"
         /\ gen.log[k].provider.status = "raise" =>
              gen.log[k].result.value = None
    /\ \A n \in 1..Len(gen.disk) :
         gen.disk[n][2] # GeneratedContent(gen.disk[n][1]) =>
           /\ EndsWithSeq(gen.disk[n][1], <<".", "p", "y">>)
           /\ \E k \in 1..Len(gen.log) :
                /\ gen.log[k].file = gen.disk[n][1]
                /\ gen.log[k].result.value # None
                /\ gen.log[k].result.value[1]
                     \notin {"", GeneratedContent(gen.disk[n][1])}
    /\ gen.pc = "raised" => gen.log = <<>> /\ gen.warnings = 0
    /\ gen.pc = "returned" =>
         gen.result # None /\ gen.result[1].generated_files = GeneratedFiles

\* generate has returned after the provider raised for one file and
\* returned a new text for the other, which was written
C24_Witness ==
  /\ gen.pc = "returned"
  /\ Len(gen.log) = 2
  /\ gen.log[1].provider.status = "raise"
  /\ gen.log[2].result.value = Some("enhanced")
  /\ Item(gen.disk, N_main) = "generated"
  /\ Item(gen.disk, N_tests_init) = "enhanced"
  /\ Item(gen.disk, N_requirements) = "generated"

\* one of the checks before the generator fails for the arguments
InputsRejected(args) ==
  \/ files[args.spec].kind = "missing"
  \/ args.output_exists /\ ~args.force
  \/ args.framework # "fastapi"
  \/ ~ParseOutcome(args.spec).ok

\* C29: when the spec file is missing, the output directory exists without
\* --force, the framework is not "fastapi" or parse fails, the command
\* exits with code 1, the generator is never invoked and the output
\* directory is as it was; otherwise the generator is invoked, with the
\* enhancement disabled when the enhancer could not be initialised.
C29_GenerateAfterChecks ==
  cli.pc # "idle" =>
    /\ InputsRejected(cli.args) =>
         /\ gen.pc = "idle"
         /\ cli.output = IF cli.args.output_exists THEN "exists" ELSE "absent"
         /\ cli.pc = "exit" => cli.exit_code = 1
    /\ gen.pc # "idle" => ~InputsRejected(cli.args) /\ cli.parsed # None
    /\ ~InputsRejected(cli.args) /\ cli.pc = "exit" => gen.pc # "idle"
    /\ gen.pc # "idle" /\ cli.args.enable_llm /\ ~cli.args.llm_available =>
         ~gen.enable_llm /\ ~gen.llm_enhancer

\* the command has ended with code 0 over an existing directory with
\* --force, the enhancer it was asked for having failed to initialise
C29_Witness ==
  /\ cli.pc = "exit" /\ cli.exit_code = 0
  /\ cli.args.output_exists /\ cli.args.force
  /\ cli.args.enable_llm /\ ~cli.args.llm_available
  /\ gen.pc = "returned" /\ gen.log = <<>>

====
